---- MODULE Spec2Model ----
(***************************************************************************)
(* A model of kj (github.com/kitagry/kj): the path patch resolver          *)
(* (applyPatch), the patch-file editing strategy (patchJobEditor.EditJob)  *)
(* and the document codec (jobToYaml).                                     *)
(*                                                                         *)
(* Go strings and byte slices are sequences of one-character strings, so   *)
(* that strings.Split, strings.Index, slicing and strconv.Atoi are         *)
(* computed, not assumed.  A document value (interface{}) is a tagged      *)
(* record: a scalar [kind, val], a sequence [kind, items] or a map         *)
(* [kind, fields], fields being a function from keys to values.            *)
(***************************************************************************)
EXTENDS Integers, Sequences, FiniteSets, TLC

(***************************************************************************)
(* Bounds of the model.                                                    *)
(***************************************************************************)
\* the longest path, in segments, that a patch is applied with
MaxSegs == 3

\* the most calls of ttyutil.ReadLine that the goroutine of confirmByUser makes
MaxReads == 3

(***************************************************************************)
(* Strings.                                                                *)
(***************************************************************************)
Digits == <<"0", "1", "2", "3", "4", "5", "6", "7", "8", "9">>

IsDigit(c) == \E d \in 1..10 : Digits[d] = c

DigitVal(c) == (CHOOSE d \in 1..10 : Digits[d] = c) - 1

\* strings.Contains(s, c) for a one-character c
Contains(s, c) == \E n \in 1..Len(s) : s[n] = c

\* strings.Index(s, c) for a one-character c: 0-based, -1 when absent
Index(s, c) ==
    IF Contains(s, c)
    THEN (CHOOSE n \in 1..Len(s) : s[n] = c /\ \A m \in 1..(n - 1) : s[m] # c) - 1
    ELSE -1

\* the Go slice s[lo:hi] (0-based, hi exclusive), for 0 <= lo <= hi <= len(s)
Slice(s, lo, hi) == SubSeq(s, lo + 1, hi)

RECURSIVE Split(_, _)
\* strings.Split(s, sep) for a one-character sep: never empty, Split("") = [""]
Split(s, sep) ==
    IF ~Contains(s, sep)
    THEN <<s>>
    ELSE LET n == Index(s, sep)
         IN  <<Slice(s, 0, n)>> \o Split(Slice(s, n + 1, Len(s)), sep)

RECURSIVE Join(_, _)
\* strings.Join(parts, sep)
Join(parts, sep) ==
    IF parts = <<>> THEN <<>>
    ELSE IF Len(parts) = 1 THEN parts[1]
    ELSE parts[1] \o <<sep>> \o Join(Tail(parts), sep)

RECURSIVE DigitsVal(_)
DigitsVal(s) ==
    IF s = <<>> THEN 0
    ELSE 10 * DigitsVal(SubSeq(s, 1, Len(s) - 1)) + DigitVal(s[Len(s)])

\* strconv.Atoi(s): an optional sign, then one or more decimal digits
AtoiBody(s) == IF s # <<>> /\ s[1] \in {"+", "-"} THEN Tail(s) ELSE s

AtoiOk(s) ==
    /\ AtoiBody(s) # <<>>
    /\ \A n \in 1..Len(AtoiBody(s)) : IsDigit(AtoiBody(s)[n])

AtoiNoSign(s) == DigitsVal(AtoiBody(s))

Atoi(s) ==
    IF s[1] = "-" THEN 0 - DigitsVal(AtoiBody(s)) ELSE DigitsVal(AtoiBody(s))

(***************************************************************************)
(* The words of a Job document, as strings.                                *)
(***************************************************************************)
\* the words of the documents and of the code, as characters
Word ==
    [ apiVersion |-> <<"a", "p", "i", "V", "e", "r", "s", "i", "o", "n">>,
      kind |-> <<"k", "i", "n", "d">>,
      metadata |-> <<"m", "e", "t", "a", "d", "a", "t", "a">>,
      name |-> <<"n", "a", "m", "e">>,
      namespace |-> <<"n", "a", "m", "e", "s", "p", "a", "c", "e">>,
      labels |-> <<"l", "a", "b", "e", "l", "s">>,
      annotations |-> <<"a", "n", "n", "o", "t", "a", "t", "i", "o", "n", "s">>,
      creationTimestamp |-> <<"c", "r", "e", "a", "t", "i", "o", "n", "T", "i", "m", "e", "s", "t", "a", "m", "p">>,
      ownerReferences |-> <<"o", "w", "n", "e", "r", "R", "e", "f", "e", "r", "e", "n", "c", "e", "s">>,
      spec |-> <<"s", "p", "e", "c">>,
      template |-> <<"t", "e", "m", "p", "l", "a", "t", "e">>,
      containers |-> <<"c", "o", "n", "t", "a", "i", "n", "e", "r", "s">>,
      image |-> <<"i", "m", "a", "g", "e">>,
      command |-> <<"c", "o", "m", "m", "a", "n", "d">>,
      resources |-> <<"r", "e", "s", "o", "u", "r", "c", "e", "s">>,
      status |-> <<"s", "t", "a", "t", "u", "s">>,
      uid |-> <<"u", "i", "d">>,
      blockOwnerDeletion |-> <<"b", "l", "o", "c", "k", "O", "w", "n", "e", "r", "D", "e", "l", "e", "t", "i", "o", "n">>,
      path |-> <<"p", "a", "t", "h">>,
      value |-> <<"v", "a", "l", "u", "e">>,
      app |-> <<"a", "p", "p">>,
      batch_v1 |-> <<"b", "a", "t", "c", "h", "/", "v", "1">>,
      Job |-> <<"J", "o", "b">>,
      CronJob |-> <<"C", "r", "o", "n", "J", "o", "b">>,
      null |-> <<"n", "u", "l", "l">>,
      true |-> <<"t", "r", "u", "e">>,
      false |-> <<"f", "a", "l", "s", "e">>,
      emptyMap |-> <<"{", "}">>,
      emptySeq |-> <<"[", "]">>,
      quotes |-> <<"\"", "\"">>,
      dash |-> <<"-", " ">>,
      comment |-> <<" ", " ", "#", " ">>,
      colonSpace |-> <<":", " ">>,
      test |-> <<"t", "e", "s", "t">>,
      default |-> <<"d", "e", "f", "a", "u", "l", "t">>,
      python |-> <<"p", "y", "t", "h", "o", "n">>,
      script |-> <<"s", "c", "r", "i", "p", "t", ".", "p", "y">>,
      echo |-> <<"e", "c", "h", "o">>,
      hello |-> <<"h", "e", "l", "l", "o">> ]

(***************************************************************************)
(* Document values: map[string]interface{}, []interface{} and scalars.     *)
(***************************************************************************)
Scalar(v) == [kind |-> "scalar", val |-> v]

SeqOf(xs) == [kind |-> "seq", items |-> xs]

MapOf(f) == [kind |-> "map", fields |-> f]

\* make(map[string]interface{})
EmptyMap == MapOf(<<>>)

\* the YAML null, a nil interface{}
Null == [kind |-> "null"]

IsMap(v) == v.kind = "map"

IsSeq(v) == v.kind = "seq"

Has(m, k) == k \in DOMAIN m.fields

RECURSIVE Field(_, _)
\* the value under the keys of nested maps, Null where a key is missing
Field(doc, keys) ==
    IF keys = <<>> THEN doc
    ELSE IF IsMap(doc) /\ Has(doc, Head(keys)) THEN Field(doc.fields[Head(keys)], Tail(keys))
    ELSE Null

\* m[k] = v on a Go map
AssignFresh(f, k, v) == [x \in {k} |-> v]

Assign(f, k, v) == [x \in (DOMAIN f) \cup {k} |-> IF x = k THEN v ELSE f[x]]

\* A reference to a map inside the document is the way to it from the
\* root: a sequence of steps, a step being a key (idx = -1) or a key and
\* an index into the sequence under the key.
Step(k, n) == [key |-> k, idx |-> n]

Child(m, s) ==
    IF s.idx = -1 THEN m.fields[s.key] ELSE m.fields[s.key].items[s.idx + 1]

RECURSIVE GetAt(_, _)
\* the map that the reference cur denotes in the document m
GetAt(m, cur) == IF cur = <<>> THEN m ELSE GetAt(Child(m, Head(cur)), Tail(cur))

RECURSIVE PutAt(_, _, _, _)
\* the document m after current[k] = v, current being the reference cur
PutAt(m, cur, k, v) ==
    IF cur = <<>>
    THEN MapOf(Assign(m.fields, k, v))
    ELSE LET s == Head(cur)
             sub == PutAt(Child(m, s), Tail(cur), k, v)
         IN  IF s.idx = -1
             THEN MapOf([m.fields EXCEPT ![s.key] = sub])
             ELSE MapOf([m.fields EXCEPT
                          ![s.key] = SeqOf([@.items EXCEPT ![s.idx + 1] = sub])])

(***************************************************************************)
(* applyPatch.                                                             *)
(***************************************************************************)
\* the error values of applyPatch; Nil is the nil error
Nil == [msg |-> "nil"]

ErrInvalidIndex(segment) ==
    [msg |-> "invalid array index in path", seg |-> segment]

ErrNotArray(arrayName) ==
    [msg |-> "path segment is not an array", seg |-> arrayName]

ErrOutOfBounds(index) == [msg |-> "array index out of bounds", index |-> index]

ErrNotObjectAtAsRange(arrayName, index) ==
    [msg |-> "array index out of bounds", index |-> index]

ErrNotObjectAt(arrayName, index) ==
    [msg |-> "path segment is not an object", seg |-> arrayName, index |-> index]

ErrNotObject(segment) == [msg |-> "path segment is not an object", seg |-> segment]

\* what a call leaves behind: the document, the error returned, and
\* whether the call ended in a run-time panic instead of returning
Outcome(jm, e, p) == [jobMap |-> jm, err |-> e, panicked |-> p]

\* the segment has the form of an array access
IsIndexed(segment) == Contains(segment, "[") /\ Contains(segment, "]")

\* nested = make(map[string]interface{}) for a key that is missing
newNestedNil == Null

newNested == EmptyMap

\* current[segment] = value at the last segment
setValueMerged(jm, cur, segment, value) ==
    LET current == GetAt(jm, cur)
    IN  IF Has(current, segment) /\ IsMap(current.fields[segment]) /\ IsMap(value)
        THEN PutAt(jm, cur, segment,
                   MapOf(value.fields @@ current.fields[segment].fields))
        ELSE PutAt(jm, cur, segment, value)

setValue(jm, cur, segment, value) == PutAt(jm, cur, segment, value)

RECURSIVE applyPatchLoop(_, _, _, _, _)
\* the loop of applyPatch from its i-th iteration (i counts from 1), with
\* the document jm, and current referring to the map at cur
applyPatchLoop(jm, segments, i, cur, value) ==
    LET segment == segments[i]
        current == GetAt(jm, cur)
    IN
    IF i = Len(segments)
    THEN Outcome(setValue(jm, cur, segment, value), Nil, FALSE)
    ELSE IF IsIndexed(segment)
    THEN LET indexStart == Index(segment, "[")
             indexEnd == Index(segment, "]")
         IN
         IF indexStart + 1 > indexEnd
         THEN Outcome(jm, Nil, TRUE)
         ELSE
         LET arrayName == Slice(segment, 0, indexStart)
             indexStr == Slice(segment, indexStart + 1, indexEnd)
         IN
         IF ~AtoiOk(indexStr)
         THEN Outcome(jm, ErrInvalidIndex(segment), FALSE)
         ELSE IF ~(Has(current, arrayName) /\ IsSeq(current.fields[arrayName]))
         THEN Outcome(jm, ErrNotArray(arrayName), FALSE)
         ELSE
         LET index == Atoi(indexStr)
             array == current.fields[arrayName].items
         IN
         IF index < 0 \/ index >= Len(array)
         THEN Outcome(jm, ErrOutOfBounds(index), FALSE)
         ELSE IF ~IsMap(array[index + 1])
         THEN Outcome(jm, ErrNotObjectAt(arrayName, index), FALSE)
         ELSE applyPatchLoop(jm, segments, i + 1,
                             Append(cur, Step(arrayName, index)), value)
    ELSE LET ok == Has(current, segment)
             nested == IF ok THEN current.fields[segment] ELSE newNested
             jm1 == IF ok THEN jm ELSE PutAt(jm, cur, segment, nested)
         IN  IF ~IsMap(nested)
             THEN Outcome(jm1, ErrNotObject(segment), FALSE)
             ELSE applyPatchLoop(jm1, segments, i + 1,
                                 Append(cur, Step(segment, -1)), value)

\* applyPatch(jobMap, path, value)
applyPatch(jm, p, value) == applyPatchLoop(jm, Split(p, "."), 1, <<>>, value)

(***************************************************************************)
(* yaml.Marshal of a document: block style, the keys of a map sorted, a    *)
(* sequence under a key at the indentation of the key.                     *)
(***************************************************************************)
Bool(b) == [kind |-> "bool", val |-> b]

Letters ==
    <<"A", "B", "C", "D", "E", "F", "G", "H", "I", "J", "K", "L", "M",
      "N", "O", "P", "Q", "R", "S", "T", "U", "V", "W", "X", "Y", "Z",
      "a", "b", "c", "d", "e", "f", "g", "h", "i", "j", "k", "l", "m",
      "n", "o", "p", "q", "r", "s", "t", "u", "v", "w", "x", "y", "z">>

\* the other characters of keys, in the order of their codes
Signs == <<"-", ".", "/", "0", "1", "2", "3", "4", "5", "6", "7", "8", "9", "[", "]">>

IsLetter(c) == \E n \in 1..Len(Letters) : Letters[n] = c

Rank(cs, c) == CHOOSE n \in 1..Len(cs) : cs[n] = c

RECURSIVE KeyLess(_, _)
\* the order in which yaml.Marshal writes the keys of a map: by the first
\* character that differs, letters by code and after the other characters,
\* a proper prefix first
KeyLess(a, b) ==
    IF a = <<>> THEN b # <<>>
    ELSE IF b = <<>> THEN FALSE
    ELSE IF a[1] = b[1] THEN KeyLess(Tail(a), Tail(b))
    ELSE IF IsLetter(a[1]) /\ IsLetter(b[1]) THEN Rank(Letters, a[1]) < Rank(Letters, b[1])
    ELSE IF IsLetter(a[1]) \/ IsLetter(b[1]) THEN IsLetter(b[1])
    ELSE Rank(Signs, a[1]) < Rank(Signs, b[1])

RECURSIVE SortedKeys(_)
SortedKeys(ks) ==
    IF ks = {} THEN <<>>
    ELSE LET k == CHOOSE x \in ks : \A y \in ks \ {x} : KeyLess(x, y)
         IN  <<k>> \o SortedKeys(ks \ {k})

Spaces(n) == [j \in 1..n |-> " "]

\* the text of a scalar: null, a boolean, a string (the empty one quoted)
yamlScalar(v) ==
    IF v.kind = "null" THEN Word.null
    ELSE IF v.kind = "bool" THEN (IF v.val THEN Word.true ELSE Word.false)
    ELSE IF v.val = <<>> THEN Word.quotes
    ELSE v.val

IsLeaf(v) == v.kind \in {"null", "bool", "scalar"}

RECURSIVE yamlMap(_, _)
RECURSIVE yamlEntries(_, _, _)
RECURSIVE yamlItems(_, _)

\* what follows "key:" for the value v of a key written at indentation ind
yamlValue(v, ind) ==
    IF IsLeaf(v) THEN <<" ">> \o yamlScalar(v) \o <<"\n">>
    ELSE IF IsMap(v)
    THEN IF DOMAIN v.fields = {} THEN <<" ">> \o Word.emptyMap \o <<"\n">>
         ELSE <<"\n">> \o yamlMap(v, ind + 2)
    ELSE IF v.items = <<>> THEN <<" ">> \o Word.emptySeq \o <<"\n">>
         ELSE <<"\n">> \o yamlItems(v.items, ind)

\* a key as it is written: the empty key quoted
yamlKey(k) == IF k = <<>> THEN Word.quotes ELSE k

yamlEntries(m, ks, ind) ==
    IF ks = <<>> THEN <<>>
    ELSE Spaces(ind) \o yamlKey(Head(ks)) \o <<":">> \o yamlValue(m.fields[Head(ks)], ind)
         \o yamlEntries(m, Tail(ks), ind)

\* the lines of a map with one key or more, at indentation ind
yamlMap(m, ind) == yamlEntries(m, SortedKeys(DOMAIN m.fields), ind)

\* an item of a sequence: a scalar, or a map whose first line follows "- "
yamlItems(items, ind) ==
    IF items = <<>> THEN <<>>
    ELSE LET v == Head(items)
             text == IF IsLeaf(v) THEN yamlScalar(v) \o <<"\n">>
                     ELSE IF DOMAIN v.fields = {} THEN Word.emptyMap \o <<"\n">>
                     ELSE LET lines == yamlMap(v, ind + 2)
                          IN  SubSeq(lines, ind + 3, Len(lines))
         IN  Spaces(ind) \o Word.dash \o text \o yamlItems(Tail(items), ind)

\* yaml.Marshal of a map
yamlMarshal(m) ==
    IF DOMAIN m.fields = {} THEN Word.emptyMap \o <<"\n">> ELSE yamlMap(m, 0)

(***************************************************************************)
(* The typed Job (batchv1.Job) and its document.  A Job is the record of   *)
(* the fields that kj sets or reads: name, namespace, labels, annotations  *)
(* and ownerReferences of the ObjectMeta, and the containers of the pod    *)
(* template.  A nil slice is the empty sequence, a nil map the empty       *)
(* function.                                                               *)
(***************************************************************************)
Opt(cond, k, v) == IF cond THEN (k :> v) ELSE <<>>

Strings(f) == MapOf([k \in DOMAIN f |-> Scalar(f[k])])

\* json.Marshal of a metav1.OwnerReference
ownerRefTree(r) ==
    MapOf((Word.apiVersion :> Scalar(r.apiVersion))
          @@ (Word.kind :> Scalar(r.kind))
          @@ (Word.name :> Scalar(r.name))
          @@ (Word.uid :> Scalar(r.uid))
          @@ Opt(r.blockOwnerDeletion, Word.blockOwnerDeletion, Bool(TRUE)))

\* json.Marshal of a v1.Container
containerTree(c) ==
    MapOf((Word.name :> Scalar(c.name))
          @@ Opt(c.image # <<>>, Word.image, Scalar(c.image))
          @@ Opt(c.command # <<>>, Word.command,
                 SeqOf([n \in 1..Len(c.command) |-> Scalar(c.command[n])]))
          @@ (Word.resources :> EmptyMap))

\* json.Marshal of a slice of structs: null for the nil slice
listTree(trees) == IF trees = <<>> THEN Null ELSE SeqOf(trees)

ownerRefTrees(refs) == listTree([n \in 1..Len(refs) |-> ownerRefTree(refs[n])])

containerTrees(cs) == listTree([n \in 1..Len(cs) |-> containerTree(cs[n])])

\* the document of a Job: what json.Marshal(job) holds
jobTree(job) ==
    MapOf((Word.apiVersion :> Scalar(Word.batch_v1))
          @@ (Word.kind :> Scalar(Word.Job))
          @@ (Word.metadata :>
                MapOf((Word.creationTimestamp :> Null)
                      @@ (Word.name :> Scalar(job.name))
                      @@ Opt(job.namespace # <<>>, Word.namespace, Scalar(job.namespace))
                      @@ Opt(DOMAIN job.labels # {}, Word.labels, Strings(job.labels))
                      @@ Opt(DOMAIN job.annotations # {}, Word.annotations,
                             Strings(job.annotations))
                      @@ Opt(job.ownerReferences # <<>>, Word.ownerReferences,
                             ownerRefTrees(job.ownerReferences))))
          @@ (Word.spec :>
                MapOf(Word.template :>
                        MapOf((Word.metadata :> MapOf(Word.creationTimestamp :> Null))
                              @@ (Word.spec :>
                                    MapOf(Word.containers :>
                                            containerTrees(job.containers))))))
          @@ (Word.status :> EmptyMap))

(***************************************************************************)
(* jobToYaml.                                                              *)
(***************************************************************************)
\* the first n0 >= n (1-based) at which pat occurs in s, less one; or -1
IndexFrom(s, pat, n) ==
    LET hits == { k \in n..(Len(s) - Len(pat) + 1) : SubSeq(s, k, k + Len(pat) - 1) = pat }
    IN  IF hits = {} THEN -1
        ELSE (CHOOSE k \in hits : \A j \in hits : k <= j) - 1

\* bytes.Index(s, pat)
bytesIndex(s, pat) == IndexFrom(s, pat, 1)

RECURSIVE ReplaceAll(_, _, _)
\* strings.ReplaceAll(s, old, new) for a one-character old
ReplaceAll(s, old, new) ==
    IF s = <<>> THEN <<>>
    ELSE IF Len(s) = 1 THEN (IF s[1] = old THEN new ELSE s)
    ELSE LET half == Len(s) \div 2
         IN  ReplaceAll(SubSeq(s, 1, half), old, new)
                 \o ReplaceAll(SubSeq(s, half + 1, Len(s)), old, new)

HasSuffix(s, suffix) ==
    Len(s) >= Len(suffix) /\ SubSeq(s, Len(s) - Len(suffix) + 1, Len(s)) = suffix

\* strings.TrimSuffix(s, suffix)
TrimSuffix(s, suffix) ==
    IF HasSuffix(s, suffix) THEN SubSeq(s, 1, Len(s) - Len(suffix)) ELSE s

\* slices.Insert(s, n, vs...)
Insert(s, n, vs) == SubSeq(s, 1, n) \o vs \o SubSeq(s, n + 1, Len(s))

\* the owner references as a block of comment lines
commentedOwnerRefs(job) ==
    LET ownerRefs ==
            yamlMarshal(MapOf(Word.ownerReferences :>
                                ownerRefTrees(job.ownerReferences)))
    IN  TrimSuffix(Word.comment \o ReplaceAll(ownerRefs, "\n", <<"\n">> \o Word.comment),
                   Word.comment)

\* job.ObjectMeta.OwnerReferences = nil
keepOwnerRefs(job) == job

withoutOwnerRefs(job) == [job EXCEPT !.ownerReferences = <<>>]

\* where the comment block goes: after the line of the first "namespace: "
namespaceInd(data) == bytesIndex(data, Word.namespace \o Word.colonSpace)

\* jobToYaml(job): the bytes returned, the job as it is left, and whether
\* the call panicked on data[namespaceInd:] with namespaceInd = -1
jobToYaml(job) ==
    LET job1 == withoutOwnerRefs(job)
        data == yamlMarshal(jobTree(job1))
    IN  IF namespaceInd(data) = -1
        THEN [data |-> <<>>, job |-> job1, panicked |-> TRUE]
        ELSE LET namespaceLineInd == IndexFrom(data, <<"\n">>, namespaceInd(data) + 1)
             IN  [data |-> Insert(data, namespaceLineInd + 1, commentedOwnerRefs(job)),
                  job |-> job1,
                  panicked |-> FALSE]

(***************************************************************************)
(* yaml.Unmarshal into a map[string]interface{} (and apiyaml.ToJSON, whose *)
(* JSON text is taken as the document it denotes): the block style that    *)
(* yamlMarshal writes, comment lines skipped.                              *)
(***************************************************************************)
RECURSIVE SplitLines(_)
\* the lines of a text, without their line ends
SplitLines(s) ==
    IF s = <<>> THEN <<>>
    ELSE LET n == IndexFrom(s, <<"\n">>, 1)
         IN  IF n = -1 THEN <<s>>
             ELSE <<SubSeq(s, 1, n)>> \o SplitLines(SubSeq(s, n + 2, Len(s)))

RECURSIVE Indent(_)
\* the number of leading spaces
Indent(line) == IF line # <<>> /\ Head(line) = " " THEN 1 + Indent(Tail(line)) ELSE 0

\* a line as its indentation and the text after it
Line(line) == [ind |-> Indent(line), text |-> SubSeq(line, Indent(line) + 1, Len(line))]

IsCommentOrBlank(line) == Line(line).text = <<>> \/ Line(line).text[1] = "#"

RECURSIVE DropComments(_)
DropComments(lines) ==
    IF lines = <<>> THEN <<>>
    ELSE (IF IsCommentOrBlank(Head(lines)) THEN <<>> ELSE <<Head(lines)>>)
         \o DropComments(Tail(lines))

\* the lines that hold content
ContentLines(data) ==
    LET kept == DropComments(SplitLines(data))
    IN  [n \in 1..Len(kept) |-> Line(kept[n])]

HasPrefix(s, prefix) == Len(s) >= Len(prefix) /\ SubSeq(s, 1, Len(prefix)) = prefix

IsItem(l) == HasPrefix(l.text, Word.dash)

\* the scalar, or empty collection, that a text denotes
yamlParseScalar(text) ==
    IF text = Word.null THEN Null
    ELSE IF text = Word.true THEN Bool(TRUE)
    ELSE IF text = Word.false THEN Bool(FALSE)
    ELSE IF text = Word.emptyMap THEN EmptyMap
    ELSE IF text = Word.emptySeq THEN SeqOf(<<>>)
    ELSE IF text = Word.quotes THEN Scalar(<<>>)
    ELSE Scalar(text)

\* "key:" or "key: value"
IsEntry(text) ==
    bytesIndex(text, Word.colonSpace) # -1 \/ (text # <<>> /\ text[Len(text)] = ":")

EntryKey(text) ==
    LET k == IF bytesIndex(text, Word.colonSpace) # -1
             THEN SubSeq(text, 1, bytesIndex(text, Word.colonSpace))
             ELSE SubSeq(text, 1, Len(text) - 1)
    IN  IF k = Word.quotes THEN <<>> ELSE k

EntryHasValue(text) == bytesIndex(text, Word.colonSpace) # -1

EntryValue(text) == SubSeq(text, bytesIndex(text, Word.colonSpace) + 3, Len(text))

RECURSIVE NextStart(_, _, _, _)
\* the first line from the n-th on that starts an entry (item = FALSE) or
\* an item (item = TRUE) at indentation ind; Len(ls) + 1 if there is none
NextStart(ls, n, ind, item) ==
    IF n > Len(ls) THEN n
    ELSE IF ls[n].ind = ind /\ IsItem(ls[n]) = item THEN n
    ELSE NextStart(ls, n + 1, ind, item)

RECURSIVE yamlParseNode(_)
RECURSIVE yamlParseEntries(_, _)
RECURSIVE yamlParseItems(_, _)

\* the fields of the map whose entries the lines ls hold at indentation ind
yamlParseEntries(ls, ind) ==
    IF ls = <<>> THEN <<>>
    ELSE LET j == NextStart(ls, 2, ind, FALSE)
             text == ls[1].text
             below == SubSeq(ls, 2, j - 1)
             v == IF EntryHasValue(text) THEN yamlParseScalar(EntryValue(text))
                  ELSE IF below = <<>> THEN Null
                  ELSE yamlParseNode(below)
         IN  (EntryKey(text) :> v) @@ yamlParseEntries(SubSeq(ls, j, Len(ls)), ind)

\* the items that the lines ls hold at indentation ind
yamlParseItems(ls, ind) ==
    IF ls = <<>> THEN <<>>
    ELSE LET j == NextStart(ls, 2, ind, TRUE)
             first == [ind |-> ind + 2, text |-> SubSeq(ls[1].text, 3, Len(ls[1].text))]
             v == IF j = 2 /\ ~IsEntry(first.text) THEN yamlParseScalar(first.text)
                  ELSE yamlParseNode(<<first>> \o SubSeq(ls, 2, j - 1))
         IN  <<v>> \o yamlParseItems(SubSeq(ls, j, Len(ls)), ind)

yamlParseNode(ls) ==
    IF IsItem(ls[1])
    THEN SeqOf(yamlParseItems(ls, ls[1].ind))
    ELSE MapOf(yamlParseEntries(ls, ls[1].ind))

\* yaml.Unmarshal(data, &jobMap)
yamlUnmarshal(data) ==
    LET ls == ContentLines(data)
    IN  IF ls = <<>> THEN EmptyMap
        ELSE IF Len(ls) = 1 /\ ~IsEntry(ls[1].text) /\ ~IsItem(ls[1])
        THEN yamlParseScalar(ls[1].text)
        ELSE yamlParseNode(ls)

(***************************************************************************)
(* yaml.Unmarshal into a batchv1.Job: the fields of the typed Job read     *)
(* from the document, a field that is missing or null keeping its zero     *)
(* value.                                                                  *)
(***************************************************************************)
\* a string field
stringOf(v) == IF v.kind = "scalar" THEN v.val ELSE <<>>

\* a map[string]string field
stringsOf(v) == IF IsMap(v) THEN [k \in DOMAIN v.fields |-> stringOf(v.fields[k])] ELSE <<>>

\* the elements of a slice field
itemsOf(v) == IF IsSeq(v) THEN v.items ELSE <<>>

ownerRefOf(v) ==
    [apiVersion |-> stringOf(Field(v, <<Word.apiVersion>>)),
     kind |-> stringOf(Field(v, <<Word.kind>>)),
     name |-> stringOf(Field(v, <<Word.name>>)),
     uid |-> stringOf(Field(v, <<Word.uid>>)),
     blockOwnerDeletion |-> Field(v, <<Word.blockOwnerDeletion>>) = Bool(TRUE)]

containerOf(v) ==
    [name |-> stringOf(Field(v, <<Word.name>>)),
     image |-> stringOf(Field(v, <<Word.image>>)),
     command |-> LET cs == itemsOf(Field(v, <<Word.command>>))
                 IN  [n \in 1..Len(cs) |-> stringOf(cs[n])]]

jobOfTree(doc) ==
    LET meta == Field(doc, <<Word.metadata>>)
        owners == itemsOf(Field(meta, <<Word.ownerReferences>>))
        cs == itemsOf(Field(doc, <<Word.spec, Word.template, Word.spec, Word.containers>>))
    IN  [name |-> stringOf(Field(meta, <<Word.name>>)),
         namespace |-> stringOf(Field(meta, <<Word.namespace>>)),
         labels |-> stringsOf(Field(meta, <<Word.labels>>)),
         annotations |-> stringsOf(Field(meta, <<Word.annotations>>)),
         ownerReferences |-> [n \in 1..Len(owners) |-> ownerRefOf(owners[n])],
         containers |-> [n \in 1..Len(cs) |-> containerOf(cs[n])]]

\* yaml.Unmarshal(data, &job)
yamlToJob(data) == jobOfTree(yamlUnmarshal(data))

(***************************************************************************)
(* strategicpatch.StrategicMergePatch(origJSON, patchJSON, job), with the  *)
(* options it sets (IgnoreUnmatchedNulls, MergeParallelList) and the patch *)
(* metadata of the Job schema.  Patch directives ($patch, $retainKeys,     *)
(* $setElementOrder, $deleteFromPrimitiveList) are not modelled.           *)
(***************************************************************************)
\* patchMergeKey of the list fields that have patchStrategy "merge"
mergeKeyOfNone(k) == <<>>

mergeKeyOf(k) ==
    IF k = Word.containers THEN Word.name
    ELSE IF k = Word.ownerReferences THEN Word.uid
    ELSE <<>>

ErrNoMergeKey == [msg |-> "does not contain declared merge key"]

ErrTypesConflict == [msg |-> "types conflict"]

ErrBadJSONDoc == [msg |-> "invalid JSON document"]

Merged(v, e) == [val |-> v, err |-> e]

RECURSIVE discardNullValuesFromPatch(_)
\* a patch value without the null entries of its maps
discardNullValuesFromPatch(v) ==
    IF IsMap(v)
    THEN MapOf([k \in {x \in DOMAIN v.fields : v.fields[x] # Null}
                  |-> discardNullValuesFromPatch(v.fields[k])])
    ELSE IF IsSeq(v)
    THEN SeqOf([n \in 1..Len(v.items) |-> discardNullValuesFromPatch(v.items[n])])
    ELSE v

\* the place (from 1) of the first map of the list with the value v under
\* the merge key, or 0
findMapInSlice(list, mk, v) ==
    IF \E n \in 1..Len(list) : IsMap(list[n]) /\ Has(list[n], mk) /\ list[n].fields[mk] = v
    THEN CHOOSE n \in 1..Len(list) :
            /\ IsMap(list[n]) /\ Has(list[n], mk) /\ list[n].fields[mk] = v
            /\ \A m \in 1..(n - 1) :
                  ~(IsMap(list[m]) /\ Has(list[m], mk) /\ list[m].fields[mk] = v)
    ELSE 0

RECURSIVE keepItems(_, _, _, _)
\* the items of list whose merge key value is (keep) or is not (~keep)
\* among those of the maps of others
keepItems(list, others, mk, keep) ==
    IF list = <<>> THEN <<>>
    ELSE (IF (findMapInSlice(others, mk, Head(list).fields[mk]) # 0) = keep
          THEN <<Head(list)>> ELSE <<>>)
         \o keepItems(Tail(list), others, mk, keep)

RECURSIVE sortByOrder(_, _, _)
\* items in the order in which their merge key values come in order
sortByOrder(items, order, mk) ==
    IF order = <<>> THEN <<>>
    ELSE LET n == IF IsMap(Head(order)) /\ Has(Head(order), mk)
                   THEN findMapInSlice(items, mk, Head(order).fields[mk]) ELSE 0
         IN  (IF n = 0 THEN <<>> ELSE <<items[n]>>) \o sortByOrder(items, Tail(order), mk)

RECURSIVE mergeSortedSlice(_, _, _, _)
\* the items of left put into right, before the first item of right that
\* comes after them in serverOrder
mergeSortedSlice(left, right, serverOrder, mk) ==
    IF left = <<>> THEN right
    ELSE IF right = <<>> THEN left
    ELSE LET li == findMapInSlice(serverOrder, mk, Head(left).fields[mk])
             ri == findMapInSlice(serverOrder, mk, Head(right).fields[mk])
         IN  IF li # 0 /\ ri # 0 /\ li < ri
             THEN <<Head(left)>> \o mergeSortedSlice(Tail(left), right, serverOrder, mk)
             ELSE <<Head(right)>> \o mergeSortedSlice(left, Tail(right), serverOrder, mk)

RECURSIVE mergeMap(_, _)
RECURSIVE mergeItems(_, _, _)
RECURSIVE mergeSlice(_, _, _)

\* mergeSliceWithoutSpecialElements: every map of the patch merged into
\* the map of original with its merge key value, or appended
mergeItems(original, patch, mk) ==
    IF patch = <<>> THEN Merged(original, Nil)
    ELSE LET v == Head(patch)
         IN  IF ~Has(v, mk) THEN Merged(original, ErrNoMergeKey)
             ELSE LET n == findMapInSlice(original, mk, v.fields[mk])
                  IN  IF n = 0
                      THEN mergeItems(Append(original, v), Tail(patch), mk)
                      ELSE LET sub == mergeMap(original[n], v)
                           IN  IF sub.err # Nil THEN sub
                               ELSE mergeItems([original EXCEPT ![n] = sub.val],
                                               Tail(patch), mk)

\* mergeSlice for a list of maps with the merge key mk
mergeSlice(original, patch, mk) ==
    IF original = <<>> /\ patch = <<>> THEN Merged(original, Nil)
    ELSE IF \E n \in 1..Len(original) : ~IsMap(original[n]) THEN Merged(original, ErrTypesConflict)
    ELSE IF \E n \in 1..Len(patch) : ~IsMap(patch[n]) THEN Merged(original, ErrTypesConflict)
    ELSE LET merged == mergeItems(original, patch, mk)
         IN  IF merged.err # Nil THEN merged
             ELSE IF \E n \in 1..Len(merged.val) : ~Has(merged.val[n], mk)
             THEN Merged(original, ErrNoMergeKey)
             ELSE Merged(mergeSortedSlice(
                             sortByOrder(keepItems(merged.val, patch, mk, FALSE), original, mk),
                             sortByOrder(keepItems(merged.val, patch, mk, TRUE), patch, mk),
                             original, mk),
                         Nil)

\* mergeSliceHandler: a list is merged when its field has a merge key and
\* taken from the patch when it has none
mergeSliceHandlerAppend(original, patch, k) ==
    IF mergeKeyOf(k) # <<>>
    THEN mergeSlice(original, patch, mergeKeyOf(k))
    ELSE Merged(original \o patch, Nil)

mergeSliceHandler(original, patch, k) ==
    IF mergeKeyOf(k) # <<>>
    THEN mergeSlice(original, patch, mergeKeyOf(k))
    ELSE Merged(patch, Nil)

\* what the key k of the patch makes of the entry of original under k
mergeEntry(original, patch, k) ==
    LET patchV == patch.fields[k]
    IN  IF ~Has(original, k) \/ original.fields[k].kind # patchV.kind
        THEN Merged(discardNullValuesFromPatch(patchV), Nil)
        ELSE IF IsMap(patchV)
        THEN mergeMap(original.fields[k], patchV)
        ELSE IF IsSeq(patchV)
        THEN LET sub == mergeSliceHandler(original.fields[k].items, patchV.items, k)
             IN  Merged(SeqOf(sub.val), sub.err)
        ELSE Merged(patchV, Nil)

\* mergeMap(original, patch): a null of the patch deletes the key
mergeMap(original, patch) ==
    LET deleted == {k \in DOMAIN patch.fields : patch.fields[k] = Null}
        set == (DOMAIN patch.fields) \ deleted
        kept == (DOMAIN original.fields) \ (DOMAIN patch.fields)
    IN  IF \E k \in set : mergeEntry(original, patch, k).err # Nil
        THEN Merged(original,
                    mergeEntry(original, patch,
                               CHOOSE k \in set : mergeEntry(original, patch, k).err # Nil).err)
        ELSE Merged(MapOf([k \in kept \cup set |->
                             IF k \in set THEN mergeEntry(original, patch, k).val
                             ELSE original.fields[k]]),
                    Nil)

\* StrategicMergePatch: both documents have to be JSON objects
StrategicMergePatch(original, patch) ==
    IF ~IsMap(original) \/ ~IsMap(patch) THEN Merged(original, ErrBadJSONDoc)
    ELSE mergeMap(original, patch)

(***************************************************************************)
(* The patch-file editing strategy.  A patch file is missing, or holds a   *)
(* text: JSON, YAML that is not JSON, or neither; a text that parses is    *)
(* given as the document it denotes.  The target file is absent or holds   *)
(* bytes.                                                                  *)
(***************************************************************************)
Missing == [format |-> "missing"]

Invalid == [format |-> "invalid"]

Json(doc) == [format |-> "json", doc |-> doc]

Yaml(doc) == [format |-> "yaml", doc |-> doc]

Absent == [exists |-> FALSE]

File(bytes) == [exists |-> TRUE, bytes |-> bytes]

ErrReadPatch == [msg |-> "failed to read patch file"]

ErrLoadPatch == [msg |-> "failed to load patch file"]

ErrConvertPatch == [msg |-> "failed to convert patch to JSON"]

ErrApplyPatch(e) == [msg |-> "failed to apply patch", cause |-> e]

ErrCreate == [msg |-> "open: no such file or directory"]

\* the value of what is not there: of a variable that a specification does
\* not use, of bytes that were not written
None == <<>>

\* what a call of EditJob leaves behind
Edited(job, file, e, p) ==
    [job |-> job, file |-> file, err |-> e, panicked |-> p, written |-> None,
     started |-> FALSE, ttys |-> 0]

\* os.Create(e.filename) and f.Write(bytes)
writeFile(job, file, createOk, bytes) ==
    IF createOk THEN [Edited(job, File(bytes), Nil, FALSE) EXCEPT !.written = bytes]
    ELSE Edited(job, file, ErrCreate, FALSE)

\* patchJobEditor.EditJob with the target file created first
EditJobCreateFirst(job, patchFile, file, createOk) ==
    IF ~createOk THEN Edited(job, file, ErrCreate, FALSE)
    ELSE IF patchFile = Missing THEN Edited(job, File(<<>>), ErrReadPatch, FALSE)
    ELSE LET origData == jobToYaml(job)
         IN  IF origData.panicked THEN Edited(origData.job, File(<<>>), Nil, TRUE)
             ELSE IF patchFile = Invalid
             THEN Edited(origData.job, File(<<>>), ErrConvertPatch, FALSE)
             ELSE LET patched == StrategicMergePatch(yamlUnmarshal(origData.data),
                                                     patchFile.doc)
                  IN  IF patched.err # Nil
                      THEN Edited(origData.job, File(<<>>), ErrApplyPatch(patched.err), FALSE)
                      ELSE Edited(origData.job, File(yamlMarshal(patched.val)), Nil, FALSE)

\* patchJobEditor.EditJob of main.go: the patch file is a fragment merged
\* into the Job document
EditJob(job, patchFile, file, createOk) ==
    IF patchFile = Missing THEN Edited(job, file, ErrReadPatch, FALSE)
    ELSE LET origData == jobToYaml(job)
         IN  IF origData.panicked THEN Edited(origData.job, file, Nil, TRUE)
             ELSE IF patchFile = Invalid
             THEN Edited(origData.job, file, ErrConvertPatch, FALSE)
             ELSE LET patched == StrategicMergePatch(yamlUnmarshal(origData.data),
                                                     patchFile.doc)
                  IN  IF patched.err # Nil
                      THEN Edited(origData.job, file, ErrApplyPatch(patched.err), FALSE)
                      ELSE writeFile(origData.job, file, createOk, yamlMarshal(patched.val))

\* json.Unmarshal(data, &patch) for the struct patchFile: the text has to
\* be a JSON object, its path a string; a field that is missing or null
\* keeps its zero value
loadPatchOk(patchFile) ==
    /\ patchFile.format = "json"
    /\ IsMap(patchFile.doc)
    /\ Has(patchFile.doc, Word.path) => patchFile.doc.fields[Word.path].kind \in {"scalar", "null"}

loadedPath(patchFile) ==
    IF Has(patchFile.doc, Word.path) /\ patchFile.doc.fields[Word.path].kind = "scalar"
    THEN patchFile.doc.fields[Word.path].val
    ELSE <<>>

loadedValue(patchFile) ==
    IF Has(patchFile.doc, Word.value) THEN patchFile.doc.fields[Word.value] ELSE Null

\* patchJobEditor.EditJob as loadPatchFromFile and applyPatchToYaml make
\* it: the patch file is a path and a value set in the Job document
EditJobByPath(job, patchFile, file, createOk) ==
    IF patchFile = Missing \/ ~loadPatchOk(patchFile)
    THEN Edited(job, file, ErrLoadPatch, FALSE)
    ELSE LET data == jobToYaml(job)
         IN  IF data.panicked THEN Edited(data.job, file, Nil, TRUE)
             ELSE LET out == applyPatch(yamlUnmarshal(data.data),
                                        loadedPath(patchFile), loadedValue(patchFile))
                  IN  IF out.panicked THEN Edited(data.job, file, Nil, TRUE)
                      ELSE IF out.err # Nil THEN Edited(data.job, file, out.err, FALSE)
                      ELSE writeFile(data.job, file, createOk, yamlMarshal(out.jobMap))

(***************************************************************************)
(* The interactive editing strategy.  The terminal opens or does not; the  *)
(* operator leaves the file as it is, takes the comment signs off the      *)
(* owner references, or empties it; the editor process exits with or       *)
(* without an error.                                                       *)
(***************************************************************************)
ErrTtyOpen == [msg |-> "open /dev/tty: no such device or address"]

ErrEditor == [msg |-> "exit status 1"]

Edits == {"keep", "uncomment", "clear"}

\* the lines without the comment sign that jobToYaml puts before the owner
\* references
Uncommented(lines) ==
    [n \in 1..Len(lines) |->
        IF HasPrefix(lines[n], Word.comment)
        THEN <<" ", " ">> \o SubSeq(lines[n], Len(Word.comment) + 1, Len(lines[n]))
        ELSE lines[n]]

RECURSIVE Unlines(_)
\* the text of lines, each with its line end
Unlines(lines) ==
    IF lines = <<>> THEN <<>> ELSE Head(lines) \o <<"\n">> \o Unlines(Tail(lines))

\* the bytes that the editor leaves in the file
editFile(bytes, edit) ==
    IF edit = "keep" THEN bytes
    ELSE IF edit = "uncomment" THEN Unlines(Uncommented(SplitLines(bytes)))
    ELSE <<>>

EditJobInteractiveNoClose(job, file, createOk, ttyOk, edit, editorErr) ==
    IF ~createOk THEN Edited(job, file, ErrCreate, FALSE)
    ELSE LET data == jobToYaml(job)
         IN  IF data.panicked THEN Edited(data.job, File(<<>>), Nil, TRUE)
             ELSE IF ~ttyOk
             THEN [Edited(data.job, File(data.data), ErrTtyOpen, FALSE)
                      EXCEPT !.written = data.data]
             ELSE [Edited(data.job, File(editFile(data.data, edit)), editorErr, FALSE)
                      EXCEPT !.written = data.data, !.started = TRUE, !.ttys = 1]

\* interactiveJobEditor.EditJob: the file is created and the encoded Job
\* written to it (writeJobToFile), the terminal opened, and the editor run
\* on the file
EditJobInteractive(job, file, createOk, ttyOk, edit, editorErr) ==
    IF ~createOk THEN Edited(job, file, ErrCreate, FALSE)
    ELSE LET data == jobToYaml(job)
         IN  IF data.panicked THEN Edited(data.job, File(<<>>), Nil, TRUE)
             ELSE IF ~ttyOk
             THEN [Edited(data.job, File(data.data), ErrTtyOpen, FALSE)
                      EXCEPT !.written = data.data]
             ELSE [Edited(data.job, File(editFile(data.data, edit)), editorErr, FALSE)
                      EXCEPT !.written = data.data, !.started = TRUE]

(***************************************************************************)
(* confirmByUser.  The goroutine reads lines and sends them on answerCh,   *)
(* or an error on errCh; the channels have no buffer, so a send is the     *)
(* receive of the select.  sigs has a buffer of one signal.                *)
(***************************************************************************)
IsSpace(c) == c \in {" ", "\t", "\n", "\r"}

\* strings.TrimSpace(s)
TrimSpaceNone(s) == s

TrimSpace(s) ==
    LET kept == { n \in 1..Len(s) : ~IsSpace(s[n]) }
    IN  IF kept = {} THEN <<>>
        ELSE SubSeq(s, CHOOSE n \in kept : \A m \in kept : n <= m,
                       CHOOSE n \in kept : \A m \in kept : n >= m)

toLower(c) ==
    IF IsLetter(c) /\ Rank(Letters, c) <= 26 THEN Letters[Rank(Letters, c) + 26] ELSE c

\* strings.ToLower(s)
ToLower(s) == [n \in 1..Len(s) |-> toLower(s[n])]

\* io.EOF and another error of ttyutil.ReadLine
EOF == [msg |-> "EOF"]

ErrRead == [msg |-> "read /dev/tty: input/output error"]

\* what ttyutil.ReadLine returned: a line or an error
ReadResult(line, e) == [line |-> line, err |-> e]

\* where a result of ReadLine sends the goroutine: back to reading on
\* io.EOF, to the send on errCh on another error, to the send on answerCh
afterReadEOFSent(r) ==
    IF r.err # Nil THEN "sendErr" ELSE "sendAnswer"

afterRead(r) ==
    IF r.err = EOF THEN "read"
    ELSE IF r.err # Nil THEN "sendErr"
    ELSE "sendAnswer"

\* what confirmByUser returned, the case of the select that returned it and
\* the line received, if one was
Decision(ok, e, by, line) == [ok |-> ok, err |-> e, by |-> by, line |-> line]

\* case <-sigs
onSignalErr == Decision(TRUE, Nil, "sigs", None)

onSignal == Decision(FALSE, Nil, "sigs", None)

onAnswerYesOnly(answer) ==
    IF ToLower(TrimSpace(answer)) = <<"y">> THEN "yes" ELSE "again"

\* case answer := <-answerCh: "yes", "no", or "again" for the default case
onAnswer(answer) ==
    LET a == ToLower(TrimSpace(answer))
    IN  IF a = <<"y">> THEN "yes"
        ELSE IF a = <<"n">> \/ a = <<>> THEN "no"
        ELSE "again"

(***************************************************************************)
(* run, from the choice of the editing strategy on.                        *)
(***************************************************************************)
\* var editor jobEditor, before it is set
NoEditor == "none"

\* the exit status while run has not returned
NoCode == -1

exitStatusOK == 0

exitStatusErr == 1

\* the flag --patch-file left at its default ""
Unset == [format |-> "unset"]

editorOf(patchFile) ==
    IF patchFile # Unset THEN "patchJobEditor" ELSE "interactiveJobEditor"

skipConfirmNever(patchFile) == FALSE

skipConfirmOf(patchFile) == patchFile # Unset

\* where run goes when EditJob has returned e
afterEditIgnoringErr(e, skip) == IF skip THEN "apply" ELSE "confirm"

afterEdit(e, skip) ==
    IF e # Nil THEN "exited"
    ELSE IF skip THEN "apply"
    ELSE "confirm"

(***************************************************************************)
(* The inputs that the model draws from.                                   *)
(***************************************************************************)
ka == <<"a">>

kb == <<"b">>

kc == <<"c">>

kx == <<"x">>

\* A path is drawn as a list of segment forms and rendered to the string
\* that applyPatch is given: a plain key, name[idx] with an integer idx,
\* name[text] with a text that is no integer, or a raw malformed segment.
Plain(name) == [form |-> "plain", name |-> name]

Indexed(name, n) == [form |-> "indexed", name |-> name, idx |-> n]

BadIndex(name, text) == [form |-> "badindex", name |-> name, text |-> text]

Raw(text) == [form |-> "raw", text |-> text]

\* the decimal text of an integer of one digit
IntText(n) == IF n < 0 THEN <<"-", Digits[1 - n]>> ELSE <<Digits[n + 1]>>

Render(f) ==
    CASE f.form = "plain" -> f.name
      [] f.form = "indexed" -> f.name \o <<"[">> \o IntText(f.idx) \o <<"]">>
      [] f.form = "badindex" -> f.name \o <<"[">> \o f.text \o <<"]">>
      [] f.form = "raw" -> f.text

Names == {ka, kb, kc, kx}

PlainForms == { Plain(n) : n \in Names \cup {<<>>} }

IndexedForms ==
    { Indexed(kb, 0), Indexed(kb, 1), Indexed(kb, 2), Indexed(kb, -1),
      Indexed(ka, 0), BadIndex(kb, <<"x">>), BadIndex(kb, <<>>),
      Raw(<<"b", "]", "0", "[">>) }

FormPool == PlainForms \cup IndexedForms

PathForms == UNION { [1..n -> FormPool] : n \in 1..MaxSegs }

\* the path string of a list of segment forms
PathOf(fs) == Join([n \in 1..Len(fs) |-> Render(fs[n])], ".")

\* a.b is a sequence of a map and a scalar; c and a.c are scalars
Doc1 ==
    MapOf((ka :> MapOf((kb :> SeqOf(<< MapOf((kc :> Scalar(<<"v", "1">>)) @@ (ka :> Scalar(<<"v", "0">>))),
                                      Scalar(<<"s">>) >>))
                       @@ (kc :> Scalar(<<"v", "0">>))))
          @@ (kc :> Scalar(<<"v", "0">>)))

\* a.b is a sequence of two maps, b is a sequence at the root, c is null
Doc2 ==
    MapOf((ka :> MapOf((kb :> SeqOf(<< MapOf((ka :> MapOf((kc :> Scalar(<<"v", "1">>))))),
                                      MapOf((kc :> Scalar(<<"v", "1">>))
                                            @@ (kb :> SeqOf(<< Scalar(<<"v", "1">>) >>))) >>))))
          @@ (kb :> SeqOf(<< MapOf((kc :> Scalar(<<"v", "1">>))) >>))
          @@ (kc :> Null))

Docs == {Doc1, Doc2}

\* the values of a patch: a scalar, a sequence, a nested map
Values ==
    { Scalar(<<"v", "2">>),
      SeqOf(<< Scalar(<<"p">>), Scalar(<<"q">>) >>),
      MapOf((ka :> MapOf((kc :> Scalar(<<"v", "2">>))))) }

\* the longest list of owner references of a Job
MaxOwners == 2

\* the owner reference that newJob makes, and one with a uid
Ref1 ==
    [apiVersion |-> Word.batch_v1, kind |-> Word.CronJob, name |-> Word.test,
     uid |-> <<>>, blockOwnerDeletion |-> TRUE]

Ref2 ==
    [apiVersion |-> Word.batch_v1, kind |-> Word.CronJob, name |-> Word.test,
     uid |-> <<"u", "1">>, blockOwnerDeletion |-> FALSE]

OwnerLists == UNION { [1..n -> {Ref1, Ref2}] : n \in 0..MaxOwners }

Container1 == [name |-> <<"c">>, image |-> <<"v", "1">>, command |-> <<Word.echo, Word.hello>>]

Container2 == [name |-> <<"d">>, image |-> <<"v", "1">>, command |-> <<>>]

ContainerLists == { <<>>, <<Container1>>, <<Container1, Container2>> }

\* labels and annotations: none, a plain one, and one whose key ends in
\* "namespace"
LabelSets == { <<>>, (Word.app :> <<"x">>), (Word.namespace :> <<"x">>) }

AnnotationSets == { <<>>, ((<<"k", "j", "/">> \o Word.namespace) :> <<"x">>) }

Jobs ==
    [name : {Word.test}, namespace : {Word.default, <<>>}, labels : LabelSets,
     annotations : AnnotationSets, ownerReferences : OwnerLists,
     containers : ContainerLists]

\* the Jobs that run hands to an editing strategy: newJob has fetched the
\* CronJob from a namespace, which is not empty, and has made it the one
\* owner of the Job; the Jobs of the tests have no owner
EditJobs ==
    { j \in Jobs : /\ j.namespace # <<>>
                   /\ DOMAIN j.annotations = {}
                   /\ j.ownerReferences \in {<<>>, <<Ref1>>} }

\* spec.template.spec.containers[n].field
ContainerPath(n, field) ==
    <<Plain(Word.spec), Plain(Word.template), Plain(Word.spec), Indexed(Word.containers, n),
      Plain(field)>>

PathPatch(forms, v) == MapOf((Word.path :> Scalar(PathOf(forms))) @@ (Word.value :> v))

\* {spec: {template: {spec: {containers: cs}}}}
ContainersPatch(cs) ==
    MapOf(Word.spec :> MapOf(Word.template :> MapOf(Word.spec :> MapOf(Word.containers :> SeqOf(cs)))))

NewCommand == SeqOf(<<Scalar(Word.python), Scalar(Word.script)>>)

PathPatches ==
    { PathPatch(ContainerPath(0, Word.command), NewCommand),
      PathPatch(ContainerPath(0, Word.image), Scalar(<<"v", "2">>)),
      PathPatch(ContainerPath(5, Word.image), Scalar(<<"v", "2">>)) }

Fragments ==
    { ContainersPatch(<< MapOf((Word.name :> Scalar(<<"c">>)) @@ (Word.image :> Scalar(<<"v", "2">>))) >>),
      ContainersPatch(<< MapOf((Word.name :> Scalar(<<"c">>)) @@ (Word.image :> Scalar(<<"v", "2">>))
                               @@ (Word.command :> NewCommand)) >>),
      ContainersPatch(<< MapOf((Word.name :> Scalar(<<"d">>)) @@ (Word.image :> Scalar(<<"v", "3">>))) >>),
      ContainersPatch(<< MapOf(Word.image :> Scalar(<<"v", "2">>)) >>),
      MapOf(Word.metadata :> MapOf(Word.labels :> MapOf(Word.app :> Scalar(<<"y">>)))) }

PatchFiles ==
    {Missing, Invalid, Yaml(Scalar(Word.hello))}
    \cup { Json(d) : d \in PathPatches \cup Fragments }
    \cup { Yaml(d) : d \in Fragments }

\* the lines that the operator enters
Lines ==
    { <<"y">>, <<" ", "Y", " ">>, <<"n">>, <<"N", "\t">>, <<>>, <<" ">>,
      <<"y", "e", "s">>, <<"x">> }

\* what ttyutil.ReadLine can return
ReadResults == { ReadResult(l, Nil) : l \in Lines } \cup { ReadResult(<<>>, e) : e \in {EOF, ErrRead} }

\* the Job that newJob has made when run chooses the strategy
RunJobs ==
    { j \in EditJobs : /\ j.ownerReferences = <<Ref1>>
                      /\ j.containers = <<Container1>>
                      /\ DOMAIN j.labels = {} }

\* the flag --patch-file: not given, or the file it names
RunPatchFiles ==
    { Unset, Missing,
      Json(ContainersPatch(<< MapOf((Word.name :> Scalar(<<"c">>))
                                    @@ (Word.image :> Scalar(<<"v", "2">>))) >>)),
      Json(ContainersPatch(<< MapOf(Word.image :> Scalar(<<"v", "2">>)) >>)) }

(***************************************************************************)
(* State.                                                                  *)
(***************************************************************************)
(***************************************************************************)
(* getNamespaceAndName: the positional arguments as a namespace and a name. *)
(***************************************************************************)
MaxArgs == 3

\* the results (namespace, name, ok)
NamespaceAndName(namespace, name, ok) == [namespace |-> namespace, name |-> name, ok |-> ok]

getNamespaceAndNameLax(s) ==
    IF Len(s) = 0 \/ Len(s) > 2 THEN NamespaceAndName(<<>>, <<>>, FALSE)
    ELSE IF Len(s) = 2 THEN NamespaceAndName(s[1], s[2], TRUE)
    ELSE LET parts == Split(s[1], "/")
         IN  IF Len(parts) = 1 THEN NamespaceAndName(<<>>, parts[1], TRUE)
             ELSE NamespaceAndName(parts[1], parts[2], TRUE)

getNamespaceAndName(s) ==
    IF Len(s) = 0 \/ Len(s) > 2 THEN NamespaceAndName(<<>>, <<>>, FALSE)
    ELSE IF Len(s) = 2 THEN NamespaceAndName(s[1], s[2], TRUE)
    ELSE LET parts == Split(s[1], "/")
         IN  IF Len(parts) > 2 THEN NamespaceAndName(<<>>, <<>>, FALSE)
             ELSE IF Len(parts) = 1 THEN NamespaceAndName(<<>>, parts[1], TRUE)
             ELSE NamespaceAndName(parts[1], parts[2], TRUE)

\* positional arguments: names, namespaces, and arguments with one, two and
\* three "/"
Arguments ==
    { <<"a">>, <<"n", "s">>, <<"n", "s", "/", "a">>, <<"a", "/", "b", "/", "c">>,
      <<>>, <<"/">>, <<"/", "a", "/">> }

RECURSIVE ListsOf(_, _)
\* the lists of at most n elements of S
ListsOf(S, n) ==
    IF n = 0 THEN { <<>> }
    ELSE LET shorter == ListsOf(S, n - 1)
         IN  shorter \cup { Append(l, x) : l \in shorter, x \in S }

ArgumentLists == ListsOf(Arguments, MaxArgs)

(***************************************************************************)
(* isCronJobGA and newJobTemplate: the CronJob API chosen from the server   *)
(* version.                                                                 *)
(***************************************************************************)
MaxMinorDigits == 3

\* the byte of a character of a version string
Byte(c) == IF c = "+" THEN 43 ELSE 48 + DigitVal(c)

RECURSIVE stringLess(_, _)
\* a < b of two Go strings: byte by byte, a proper prefix first
stringLess(a, b) ==
    IF b = <<>> THEN FALSE
    ELSE IF a = <<>> THEN TRUE
    ELSE IF Byte(Head(a)) # Byte(Head(b)) THEN Byte(Head(a)) < Byte(Head(b))
    ELSE stringLess(Tail(a), Tail(b))

\* version.Info
Info(major, minor) == [major |-> major, minor |-> minor]

isCronJobGA(v) ==
    \/ v.major = <<"1">> /\ ~stringLess(v.minor, <<"2", "1">>)
    \/ stringLess(<<"1">>, v.major)

ErrServerVersion == [msg |-> "failed to get serverVersion"]

ErrGetCronJob == [msg |-> "cronjobs.batch not found"]

\* what newJobTemplate did: the group version whose CronJobs it asked for,
\* the owner reference and the error it returned
Template(ga, api, ownerRef, e) == [ga |-> ga, api |-> api, ownerRef |-> ownerRef, err |-> e]

newJobTemplate(v, versionOk, getOk) ==
    IF ~versionOk THEN Template(FALSE, "none", None, ErrServerVersion)
    ELSE IF isCronJobGA(v)
    THEN IF ~getOk THEN Template(TRUE, "batch/v1", None, ErrGetCronJob)
         ELSE Template(TRUE, "batch/v1", "batch/v1", Nil)
    ELSE IF ~getOk THEN Template(FALSE, "batch/v1beta1", None, ErrGetCronJob)
         ELSE Template(FALSE, "batch/v1beta1", "batch/v1beta1", Nil)

\* decimal numbers of at most MaxMinorDigits digits, without leading zeros
VersionDigits == {"0", "1", "2", "9"}

Numbers ==
    { n \in ListsOf(VersionDigits, MaxMinorDigits) : n # <<>> /\ (Len(n) > 1 => n[1] # "0") }

Majors == { <<"0">>, <<"1">>, <<"2">>, <<"1", "0">> }

\* the minor of a release, and of a build that is ahead of it ("21+")
Minors == Numbers \cup { Append(n, "+") : n \in Numbers }

Versions == { Info(major, minor) : major \in Majors, minor \in Minors }

(***************************************************************************)
(* Kubeconfig.CurrentNamespace.                                             *)
(***************************************************************************)
MaxContexts == 2

\* KubeContexts: a name and the namespace of its context, "" when it has none
KubeContexts(name, namespace) == [name |-> name, namespace |-> namespace]

Kubeconfig(contexts, currentContext) ==
    [contexts |-> contexts, currentContext |-> currentContext]

\* the context found and whether one was
Found(namespace, ok) == [namespace |-> namespace, ok |-> ok]

\* the first context whose name is current-context
currentContext(k) ==
    LET hits == { n \in 1..Len(k.contexts) : k.contexts[n].name = k.currentContext }
    IN  IF hits = {} THEN Found(<<>>, FALSE)
        ELSE Found(k.contexts[CHOOSE n \in hits : \A m \in hits : n <= m].namespace, TRUE)

CurrentNamespace(k) ==
    LET found == currentContext(k)
    IN  IF ~found.ok THEN <<>> ELSE found.namespace

ContextNames == { <<"a">>, <<"b">>, <<"x">> }

Namespaces == { <<>>, <<"n", "s", "B">> }

Kubeconfigs ==
    { Kubeconfig(contexts, cur) :
        contexts \in ListsOf({ KubeContexts(n, ns) : n \in ContextNames, ns \in Namespaces },
                             MaxContexts),
        cur \in ContextNames }

VARIABLES
    pc,         \* where the modelled call stands: "call", "returned", "panicked"
    called,     \* the function that the call is of
    jobMap,     \* applyPatch: the document, mutated in place
    path,       \* applyPatch: the path argument
    value,      \* applyPatch: the value argument
    err,        \* the error returned
    jobMap0,    \* the document as it was when applyPatch was called
    pathForm,   \* the segment forms that path was rendered from
    job,        \* jobToYaml, EditJob: the Job, whose owner references are cleared
    job0,       \* the Job as it was when the function was called
    data,       \* jobToYaml: the bytes returned
    patchFile,  \* EditJob: the patch file
    file,       \* EditJob: the target file
    file0,      \* the target file as it was when EditJob was called
    createOk,   \* EditJob: whether os.Create of the target file succeeds
    written,    \* EditJob: the bytes that the strategy wrote to the target file
    args,       \* the argument of a function called on its own
    ret,        \* what that function returned
    editor,     \* run: the jobEditor chosen
    skipConfirm, \* run: whether the confirmation is skipped
    trace,      \* run: what was started and printed, in order
    code,       \* run: the exit status returned
    gate,       \* confirmByUser: where the call stands
    reader,     \* confirmByUser: where the goroutine that reads lines stands
    held,       \* what the goroutine has read and not yet sent
    sigs,       \* the signals in the channel sigs (of capacity 1)
    reads,      \* the calls of ttyutil.ReadLine made so far
    ttys,       \* the terminal handles that are open
    confirmed   \* what confirmByUser returned

patchVars == <<jobMap, path, value, jobMap0, pathForm>>

codecVars == <<job, job0, data>>

editVars == <<patchFile, file, file0, createOk, written>>

callVars == <<args, ret>>

runVars == <<editor, skipConfirm, trace, code>>

gateVars == <<gate, reader, held, sigs, reads, ttys, confirmed>>

vars == <<pc, called, err, patchVars, codecVars, editVars, callVars, runVars, gateVars>>

NoPatch == jobMap = None /\ path = None /\ value = None /\ jobMap0 = None /\ pathForm = None

NoCodec == job = None /\ job0 = None /\ data = None

NoEdit ==
    patchFile = None /\ file = None /\ file0 = None /\ createOk = FALSE /\ written = None

NoCall == args = None /\ ret = None

NoRun == editor = NoEditor /\ skipConfirm = FALSE /\ trace = <<>> /\ code = NoCode

NoGate ==
    /\ gate = None /\ reader = None /\ held = None /\ sigs = 0 /\ reads = 0
    /\ ttys = 0 /\ confirmed = None

(***************************************************************************)
(* The path patch resolver on its own: Init draws a document, a path and   *)
(* a value, and the one action is a call of applyPatch.                    *)
(***************************************************************************)
InitPatch ==
    /\ pc = "call"
    /\ called = "applyPatch"
    /\ jobMap \in Docs
    /\ jobMap0 = jobMap
    /\ pathForm \in PathForms
    /\ path = PathOf(pathForm)
    /\ value \in Values
    /\ err = Nil
    /\ NoCodec /\ NoEdit /\ NoCall /\ NoRun /\ NoGate

ApplyPatch ==
    /\ pc = "call"
    /\ called = "applyPatch"
    /\ LET out == applyPatch(jobMap, path, value)
       IN  /\ jobMap' = out.jobMap
           /\ err' = out.err
           /\ pc' = IF out.panicked THEN "panicked" ELSE "returned"
    /\ UNCHANGED <<called, path, value, jobMap0, pathForm, codecVars, editVars, callVars,
                   runVars, gateVars>>

NextPatch == ApplyPatch

SpecPatch == InitPatch /\ [][NextPatch]_vars

(***************************************************************************)
(* The document codec on its own: Init draws a Job, the actions are a call *)
(* of jobToYaml and the decoding of what it returned.                      *)
(***************************************************************************)
InitCodec ==
    /\ pc = "call"
    /\ called = "jobToYaml"
    /\ job \in Jobs
    /\ job0 = job
    /\ data = <<>>
    /\ err = Nil
    /\ NoPatch /\ NoEdit /\ NoCall /\ NoRun /\ NoGate

JobToYaml ==
    /\ pc = "call"
    /\ called = "jobToYaml"
    /\ LET out == jobToYaml(job)
       IN  /\ job' = out.job
           /\ data' = out.data
           /\ pc' = IF out.panicked THEN "panicked" ELSE "returned"
    /\ UNCHANGED <<called, err, job0, patchVars, editVars, callVars, runVars, gateVars>>

\* the bytes that jobToYaml returned decoded into a typed Job
DecodeJob ==
    /\ pc = "returned"
    /\ called = "jobToYaml"
    /\ ret = None
    /\ ret' = yamlToJob(data)
    /\ UNCHANGED <<pc, called, err, args, patchVars, codecVars, editVars, runVars, gateVars>>

NextCodec == JobToYaml \/ DecodeJob

SpecCodec == InitCodec /\ [][NextCodec]_vars

(***************************************************************************)
(* The patch-file strategy: Init draws a Job as run makes it, a patch      *)
(* file and a target file; the actions are the calls of EditJob, as        *)
(* main.go has it and as loadPatchFromFile and applyPatchToYaml make it.   *)
(***************************************************************************)
InitEdit ==
    /\ pc = "call"
    /\ called \in {"EditJob", "EditJobByPath", "EditJobInteractive"}
    /\ job \in EditJobs
    /\ job0 = job
    /\ patchFile \in IF called = "EditJobInteractive" THEN {None} ELSE PatchFiles
    /\ file \in {Absent, File(<<>>)}
    /\ file0 = file
    /\ createOk \in BOOLEAN
    /\ written = None
    /\ err = Nil
    /\ data = None
    /\ NoPatch /\ NoCall /\ NoRun /\ NoGate

Edit(out) ==
    /\ job' = out.job
    /\ file' = out.file
    /\ written' = out.written
    /\ err' = out.err
    /\ pc' = IF out.panicked THEN "panicked" ELSE "returned"
    /\ trace' = IF out.started THEN Append(trace, "editor") ELSE trace
    /\ UNCHANGED <<called, job0, data, patchFile, file0, createOk, patchVars, callVars,
                   editor, skipConfirm, code, gateVars>>

CallEditJob ==
    /\ pc = "call"
    /\ called = "EditJob"
    /\ Edit(EditJob(job, patchFile, file, createOk))

CallEditJobByPath ==
    /\ pc = "call"
    /\ called = "EditJobByPath"
    /\ Edit(EditJobByPath(job, patchFile, file, createOk))

CallEditJobInteractive ==
    /\ pc = "call"
    /\ called = "EditJobInteractive"
    /\ \E ttyOk \in BOOLEAN, edit \in Edits, editorErr \in {Nil, ErrEditor} :
          Edit(EditJobInteractive(job, file, createOk, ttyOk, edit, editorErr))

NextEdit == CallEditJob \/ CallEditJobByPath \/ CallEditJobInteractive

SpecEdit == InitEdit /\ [][NextEdit]_vars

(***************************************************************************)
(* run from the choice of the strategy to its return, with confirmByUser   *)
(* and its goroutine as steps of their own.  err is the error that EditJob *)
(* returned.                                                               *)
(***************************************************************************)
InitRun ==
    /\ pc = "choose"
    /\ called = "run"
    /\ job \in RunJobs
    /\ job0 = job
    /\ data = None
    /\ patchFile \in RunPatchFiles
    /\ file \in {Absent, File(<<>>)}
    /\ file0 = file
    /\ createOk \in BOOLEAN
    /\ written = None
    /\ err = Nil
    /\ NoRun
    /\ gate = "idle" /\ reader = "idle" /\ held = None /\ sigs = 0 /\ reads = 0
    /\ ttys = 0 /\ confirmed = None
    /\ NoPatch /\ NoCall

\* var editor jobEditor ... skipConfirm = true
RunChoose ==
    /\ called = "run" /\ pc = "choose"
    /\ editor' = editorOf(patchFile)
    /\ skipConfirm' = skipConfirmOf(patchFile)
    /\ pc' = "edit"
    /\ UNCHANGED <<called, err, patchVars, codecVars, editVars, callVars, trace, code, gateVars>>

\* what run does with what EditJob left behind
RunEdited(out) ==
    /\ job' = out.job
    /\ file' = out.file
    /\ written' = out.written
    /\ err' = out.err
    /\ pc' = IF out.panicked THEN "panicked" ELSE afterEdit(out.err, skipConfirm)
    /\ trace' = (IF out.started THEN Append(trace, "editor") ELSE trace)
                \o (IF ~out.panicked /\ out.err # Nil THEN <<"report">> ELSE <<>>)
    /\ code' = IF ~out.panicked /\ afterEdit(out.err, skipConfirm) = "exited"
               THEN exitStatusErr ELSE code
    /\ ttys' = ttys + out.ttys
    /\ UNCHANGED <<called, job0, data, patchFile, file0, createOk, patchVars, callVars,
                   editor, skipConfirm, gate, reader, held, sigs, reads, confirmed>>

\* if err := editor.EditJob(job); err != nil
RunEdit ==
    /\ called = "run" /\ pc = "edit"
    /\ \/ /\ editor = "patchJobEditor"
          /\ RunEdited(EditJob(job, patchFile, file, createOk))
       \/ /\ editor = "interactiveJobEditor"
          /\ \E ttyOk \in BOOLEAN, edit \in Edits, editorErr \in {Nil, ErrEditor} :
                RunEdited(EditJobInteractive(job, file, createOk, ttyOk, edit, editorErr))

\* confirmByUser up to the select: the terminal opened, the prompt printed,
\* the signal relayed, the goroutine started
GateOpen ==
    /\ called = "run" /\ pc = "confirm" /\ gate = "idle"
    /\ \/ /\ confirmed' = Decision(FALSE, ErrTtyOpen, "open", None)
          /\ gate' = "returned"
          /\ UNCHANGED <<reader, ttys, trace>>
       \/ /\ ttys' = ttys + 1
          /\ trace' = Append(trace, "prompt")
          /\ reader' = "read"
          /\ gate' = "select"
          /\ UNCHANGED confirmed
    /\ UNCHANGED <<pc, called, err, patchVars, codecVars, editVars, callVars, editor,
                   skipConfirm, code, held, sigs, reads>>

\* a SIGINT is relayed to sigs while confirmByUser has it notified
Interrupt ==
    /\ called = "run" /\ gate = "select" /\ sigs = 0
    /\ sigs' = 1
    /\ UNCHANGED <<pc, called, err, patchVars, codecVars, editVars, callVars, runVars,
                   gate, reader, held, reads, ttys, confirmed>>

ReadLineOverwrites ==
    /\ called = "run" /\ pc \notin {"exited", "panicked"}
    /\ reader = "read" /\ reads < MaxReads
    /\ \E r \in ReadResults :
          /\ held' = r
          /\ reader' = afterRead(r)
          /\ confirmed' = IF gate = "returned" /\ r.err = Nil
                          THEN Decision(onAnswer(r.line) = "yes", Nil, "answer", r.line)
                          ELSE confirmed
    /\ reads' = reads + 1
    /\ UNCHANGED <<pc, called, err, patchVars, codecVars, editVars, callVars, runVars,
                   gate, sigs, ttys>>

\* answer, err := ttyutil.ReadLine(tty) in the goroutine
ReadLine ==
    /\ called = "run" /\ pc \notin {"exited", "panicked"}
    /\ reader = "read" /\ reads < MaxReads
    /\ \E r \in ReadResults :
          /\ held' = r
          /\ reader' = afterRead(r)
    /\ reads' = reads + 1
    /\ UNCHANGED <<pc, called, err, patchVars, codecVars, editVars, callVars, runVars,
                   gate, sigs, ttys, confirmed>>

\* return of confirmByUser from the select: the deferred signal.Stop and
\* tty.Close run
GateReturn(d) ==
    /\ confirmed' = d
    /\ gate' = "returned"
    /\ ttys' = ttys - 1

\* case <-sigs
GateSignal ==
    /\ called = "run" /\ gate = "select" /\ sigs = 1
    /\ sigs' = 0
    /\ GateReturn(onSignal)
    /\ UNCHANGED <<pc, called, err, patchVars, codecVars, editVars, callVars, runVars,
                   reader, held, reads>>

\* case answer := <-answerCh, with the send answerCh <- answer
GateAnswer ==
    /\ called = "run" /\ gate = "select" /\ reader = "sendAnswer"
    /\ reader' = "read"
    /\ \/ /\ onAnswer(held.line) = "yes"
          /\ GateReturn(Decision(TRUE, Nil, "answer", held.line))
          /\ UNCHANGED trace
       \/ /\ onAnswer(held.line) = "no"
          /\ GateReturn(Decision(FALSE, Nil, "answer", held.line))
          /\ UNCHANGED trace
       \/ /\ onAnswer(held.line) = "again"
          /\ trace' = Append(trace, "reprompt")
          /\ UNCHANGED <<gate, ttys, confirmed>>
    /\ UNCHANGED <<pc, called, err, patchVars, codecVars, editVars, callVars, editor,
                   skipConfirm, code, held, sigs, reads>>

\* case err := <-errCh, with the send errCh <- err
GateError ==
    /\ called = "run" /\ gate = "select" /\ reader = "sendErr"
    /\ reader' = "done"
    /\ GateReturn(Decision(FALSE, held.err, "errCh", None))
    /\ UNCHANGED <<pc, called, err, patchVars, codecVars, editVars, callVars, runVars,
                   held, sigs, reads>>

\* confirmed, err := confirmByUser() ... if !confirmed
RunConfirmed ==
    /\ called = "run" /\ pc = "confirm" /\ gate = "returned"
    /\ trace' = trace \o (IF confirmed.err # Nil THEN <<"report">> ELSE <<>>)
                      \o (IF ~confirmed.ok THEN <<"canceled">> ELSE <<>>)
    /\ pc' = IF confirmed.ok THEN "apply" ELSE "exited"
    /\ code' = IF confirmed.ok THEN code ELSE exitStatusOK
    /\ UNCHANGED <<called, err, patchVars, codecVars, editVars, callVars, editor,
                   skipConfirm, gateVars>>

\* if err := applyJob(jobFilename); err != nil
RunApply ==
    /\ called = "run" /\ pc = "apply"
    /\ \E applyOk \in BOOLEAN :
          /\ trace' = Append(trace, "apply") \o (IF applyOk THEN <<>> ELSE <<"report">>)
          /\ code' = IF applyOk THEN exitStatusOK ELSE exitStatusErr
    /\ pc' = "exited"
    /\ UNCHANGED <<called, err, patchVars, codecVars, editVars, callVars, editor,
                   skipConfirm, gateVars>>

NextRun ==
    \/ RunChoose \/ RunEdit \/ RunConfirmed \/ RunApply
    \/ GateOpen \/ Interrupt \/ ReadLine \/ GateSignal \/ GateAnswer \/ GateError

SpecRun == InitRun /\ [][NextRun]_vars

\* the select of confirmByUser is not kept from a case that is ready: a
\* signal in sigs, or a send of the goroutine, is received in the end.  The
\* lines come from the operator and the signals from outside, so ReadLine
\* and Interrupt have no fairness, and neither has the rest of run.
SpecRunFair ==
    /\ SpecRun
    /\ WF_vars(GateSignal)
    /\ WF_vars(GateAnswer)
    /\ WF_vars(GateError)

(***************************************************************************)
(* getNamespaceAndName on its own: Init draws the positional arguments.    *)
(***************************************************************************)
InitArgs ==
    /\ pc = "call"
    /\ called = "getNamespaceAndName"
    /\ args \in ArgumentLists
    /\ ret = None
    /\ err = Nil
    /\ NoPatch /\ NoCodec /\ NoEdit /\ NoRun /\ NoGate

GetNamespaceAndName ==
    /\ pc = "call"
    /\ called = "getNamespaceAndName"
    /\ ret' = getNamespaceAndName(args)
    /\ pc' = "returned"
    /\ UNCHANGED <<called, err, args, patchVars, codecVars, editVars, runVars, gateVars>>

NextArgs == GetNamespaceAndName

SpecArgs == InitArgs /\ [][NextArgs]_vars

(***************************************************************************)
(* isCronJobGA and newJobTemplate on their own: Init draws the version     *)
(* that the server reports.                                                *)
(***************************************************************************)
InitVersion ==
    /\ pc = "call"
    /\ called \in {"isCronJobGA", "newJobTemplate"}
    /\ args \in Versions
    /\ ret = None
    /\ err = Nil
    /\ NoPatch /\ NoCodec /\ NoEdit /\ NoRun /\ NoGate

IsCronJobGA ==
    /\ pc = "call"
    /\ called = "isCronJobGA"
    /\ ret' = Template(isCronJobGA(args), "none", None, Nil)
    /\ pc' = "returned"
    /\ UNCHANGED <<called, err, args, patchVars, codecVars, editVars, runVars, gateVars>>

NewJobTemplate ==
    /\ pc = "call"
    /\ called = "newJobTemplate"
    /\ \E versionOk \in BOOLEAN, getOk \in BOOLEAN :
          /\ ret' = newJobTemplate(args, versionOk, getOk)
          /\ err' = ret'.err
    /\ pc' = "returned"
    /\ UNCHANGED <<called, args, patchVars, codecVars, editVars, runVars, gateVars>>

NextVersion == IsCronJobGA \/ NewJobTemplate

SpecVersion == InitVersion /\ [][NextVersion]_vars

(***************************************************************************)
(* Kubeconfig.CurrentNamespace on its own: Init draws the kubeconfig.      *)
(***************************************************************************)
InitKubeconfig ==
    /\ pc = "call"
    /\ called = "CurrentNamespace"
    /\ args \in Kubeconfigs
    /\ ret = None
    /\ err = Nil
    /\ NoPatch /\ NoCodec /\ NoEdit /\ NoRun /\ NoGate

CallCurrentNamespace ==
    /\ pc = "call"
    /\ called = "CurrentNamespace"
    /\ ret' = CurrentNamespace(args)
    /\ pc' = "returned"
    /\ UNCHANGED <<called, err, args, patchVars, codecVars, editVars, runVars, gateVars>>

NextKubeconfig == CallCurrentNamespace

SpecKubeconfig == InitKubeconfig /\ [][NextKubeconfig]_vars

(***************************************************************************)
(* What the claims say of a path, read off the segment forms and not off   *)
(* the path string.                                                        *)
(***************************************************************************)
\* no map: the segment does not address one
Stuck == [kind |-> "stuck"]

\* the sequence under name in the map m, if there is one
HasSeq(m, name) == Has(m, name) /\ IsSeq(m.fields[name])

\* the map that the segment form f addresses in the map m
Enter(m, f) ==
    IF f.form = "plain"
    THEN IF Has(m, f.name) /\ IsMap(m.fields[f.name]) THEN m.fields[f.name] ELSE Stuck
    ELSE IF f.form = "indexed"
    THEN IF /\ HasSeq(m, f.name)
            /\ f.idx \in 0..(Len(m.fields[f.name].items) - 1)
            /\ IsMap(m.fields[f.name].items[f.idx + 1])
         THEN m.fields[f.name].items[f.idx + 1]
         ELSE Stuck
    ELSE Stuck

\* the same, a plain key that is missing addressing a new empty map
EnterOrCreate(m, f) ==
    IF f.form = "plain" /\ ~Has(m, f.name) THEN EmptyMap ELSE Enter(m, f)

RECURSIVE Walk(_, _)
\* the map that the segment forms fs lead to from the map m
Walk(m, fs) ==
    IF fs = <<>> \/ m = Stuck THEN m ELSE Walk(Enter(m, Head(fs)), Tail(fs))

RECURSIVE WalkOrCreate(_, _)
WalkOrCreate(m, fs) ==
    IF fs = <<>> \/ m = Stuck THEN m
    ELSE WalkOrCreate(EnterOrCreate(m, Head(fs)), Tail(fs))

Prefix(n) == SubSeq(pathForm, 1, n - 1)

Last == pathForm[Len(pathForm)]

\* the kinds of error, told by the message
IsTypeMismatch(e, seg) ==
    /\ e.msg \in {"path segment is not an array", "path segment is not an object"}
    /\ e.seg = seg

IsInvalidIndex(e, seg) == e.msg = "invalid array index in path" /\ e.seg = seg

IsOutOfBounds(e, n) == e.msg = "array index out of bounds" /\ e.index = n

\* f1 and f0 are maps that differ at most under the key k
SameBut(f1, f0, k) ==
    /\ (DOMAIN f1) \ {k} = (DOMAIN f0) \ {k}
    /\ \A j \in (DOMAIN f0) \ {k} : f1[j] = f0[j]

(***************************************************************************)
(* C1: for a path a.b[i].c, where a.b is a sequence of more than i         *)
(* elements whose element i is a map, applyPatch returns no error, sets    *)
(* a.b[i].c to the value and leaves alone every other key of the element,  *)
(* every other element of a.b and every other part of the document.        *)
(***************************************************************************)
C1_Pre(A, B, n) ==
    /\ Has(jobMap0, A) /\ IsMap(jobMap0.fields[A])
    /\ HasSeq(jobMap0.fields[A], B)
    /\ n < Len(jobMap0.fields[A].fields[B].items)
    /\ IsMap(jobMap0.fields[A].fields[B].items[n + 1])

C1_Post(A, B, n, C) ==
    LET a0 == jobMap0.fields[A]
        a1 == jobMap.fields[A]
        s0 == a0.fields[B].items
        s1 == a1.fields[B].items
    IN  /\ pc = "returned" /\ err = Nil
        /\ IsMap(jobMap) /\ A \in DOMAIN jobMap.fields
        /\ SameBut(jobMap.fields, jobMap0.fields, A)
        /\ IsMap(a1) /\ B \in DOMAIN a1.fields
        /\ SameBut(a1.fields, a0.fields, B)
        /\ IsSeq(a1.fields[B]) /\ Len(s1) = Len(s0)
        /\ \A j \in 1..Len(s0) : j # n + 1 => s1[j] = s0[j]
        /\ IsMap(s1[n + 1]) /\ C \in DOMAIN s1[n + 1].fields
        /\ SameBut(s1[n + 1].fields, s0[n + 1].fields, C)
        /\ s1[n + 1].fields[C] = value

C1_SetsFieldOfElement ==
    \A A \in Names, B \in Names, C \in Names, n \in 0..2 :
        (/\ pc # "call"
         /\ pathForm = <<Plain(A), Indexed(B, n), Plain(C)>>
         /\ C1_Pre(A, B, n))
        => C1_Post(A, B, n, C)

\* a.b[1].c is set in the document whose a.b[1] has the sibling key b
C1_Witness ==
    /\ pc = "returned" /\ err = Nil
    /\ jobMap0 = Doc2
    /\ pathForm = <<Plain(ka), Indexed(kb, 1), Plain(kc)>>
    /\ jobMap.fields[ka].fields[kb].items[2].fields[kc] = value
    /\ value # Scalar(<<"v", "1">>)

(***************************************************************************)
(* C2: for a path x.y.z of plain segments on a document without the key    *)
(* x, applyPatch returns no error, creates a map under x and one under     *)
(* x.y and sets x.y.z; and on a path of plain segments an error is always  *)
(* due to an entry that exists and is not a map, never to a missing key.   *)
(***************************************************************************)
AllPlain == \A n \in 1..Len(pathForm) : pathForm[n].form = "plain"

C2_CreatesNestedMaps ==
    /\ \A X \in Names, Y \in Names, Z \in Names :
          (/\ pc # "call"
           /\ pathForm = <<Plain(X), Plain(Y), Plain(Z)>>
           /\ ~Has(jobMap0, X))
          => /\ pc = "returned" /\ err = Nil
             /\ SameBut(jobMap.fields, jobMap0.fields, X)
             /\ X \in DOMAIN jobMap.fields
             /\ jobMap.fields[X] = MapOf(Y :> MapOf(Z :> value))
    /\ (pc # "call" /\ AllPlain /\ err # Nil)
          => \E n \in 1..(Len(pathForm) - 1) :
                LET m == Walk(jobMap0, Prefix(n))
                IN  /\ m # Stuck
                    /\ Has(m, pathForm[n].name)
                    /\ ~IsMap(m.fields[pathForm[n].name])

\* x.c.a is set in a document that has no key x
C2_Witness ==
    /\ pc = "returned" /\ err = Nil
    /\ pathForm = <<Plain(kx), Plain(kc), Plain(ka)>>
    /\ ~Has(jobMap0, kx)
    /\ jobMap.fields[kx].fields[kc].fields[ka] = value

(***************************************************************************)
(* C3: when a segment name[idx] that is not the last has an integer idx    *)
(* that is negative or not less than the length of the sequence under      *)
(* name, applyPatch returns the out-of-bounds error and the document is    *)
(* what it was before the call.                                            *)
(***************************************************************************)
C3_OutOfRange(n) ==
    LET f == pathForm[n]
        m == Walk(jobMap0, Prefix(n))
    IN  /\ f.form = "indexed"
        /\ m # Stuck
        /\ HasSeq(m, f.name)
        /\ (f.idx < 0 \/ f.idx >= Len(m.fields[f.name].items))

C3_OutOfBoundsLeavesDocument ==
    \A n \in 1..(Len(pathForm) - 1) :
        (pc # "call" /\ C3_OutOfRange(n))
        => pc = "returned" /\ IsOutOfBounds(err, pathForm[n].idx) /\ jobMap = jobMap0

\* a.b[-1] and a.b[2] on sequences of two elements, one at a time
C3_Witness ==
    /\ pc = "returned"
    /\ Len(pathForm) = 3
    /\ pathForm[1] = Plain(ka)
    /\ pathForm[2] = Indexed(kb, -1)
    /\ IsOutOfBounds(err, -1)

(***************************************************************************)
(* C4: at the last segment applyPatch stores the value as given under      *)
(* that key of the current map, whether or not the key was there; what     *)
(* was there, of any shape, is replaced and nothing of it is merged.       *)
(***************************************************************************)
C4_StoresValueVerbatim ==
    (pc = "returned" /\ err = Nil)
    => LET m == Walk(jobMap, Prefix(Len(pathForm)))
       IN  /\ m # Stuck
           /\ Has(m, Render(Last))
           /\ m.fields[Render(Last)] = value

\* a map value replaces the map that was under a
C4_Witness ==
    /\ pc = "returned" /\ err = Nil
    /\ pathForm = <<Plain(ka)>>
    /\ IsMap(jobMap0.fields[ka])
    /\ IsMap(value)
    /\ jobMap.fields[ka] = value
    /\ jobMap0.fields[ka] # value

(***************************************************************************)
(* C5: applyPatch classifies a failure at a segment that is not the last.  *)
(* For the n-th segment, reached with every segment before it descended    *)
(* into (a missing plain key descending into a new map):                   *)
(*   - a plain segment whose entry exists and is not a map: the type       *)
(*     mismatch error naming the segment;                                  *)
(*   - name[idx], idx not an integer: the invalid array index error,       *)
(*     whatever is under name;                                             *)
(*   - name[idx], idx an integer, name absent or not a sequence: the type  *)
(*     mismatch error naming name;                                         *)
(*   - name[idx], idx outside 0..length-1: the out-of-bounds error;        *)
(*   - name[idx], element idx not a map: the type mismatch error;          *)
(* and when no segment fails, the call returns no error.                   *)
(***************************************************************************)
\* the map that applyPatch has reached when it comes to the n-th segment
Reached(n) == WalkOrCreate(jobMap0, Prefix(n))

C5_PlainNotMap(n) ==
    LET f == pathForm[n]
        m == Reached(n)
    IN  (f.form = "plain" /\ Has(m, f.name) /\ ~IsMap(m.fields[f.name]))
        => IsTypeMismatch(err, f.name)

C5_OutOfBounds(n) ==
    LET f == pathForm[n]
        m == Reached(n)
    IN  (/\ f.form = "indexed"
         /\ HasSeq(m, f.name)
         /\ f.idx \notin 0..(Len(m.fields[f.name].items) - 1))
        => IsOutOfBounds(err, f.idx)

C5_ElementNotMap(n) ==
    LET f == pathForm[n]
        m == Reached(n)
    IN  (/\ f.form = "indexed"
         /\ HasSeq(m, f.name)
         /\ f.idx \in 0..(Len(m.fields[f.name].items) - 1)
         /\ ~IsMap(m.fields[f.name].items[f.idx + 1]))
        => IsTypeMismatch(err, f.name) /\ err.index = f.idx

C5_NoFailure == Reached(Len(pathForm)) # Stuck => pc = "returned" /\ err = Nil

\* the index is looked at before the entry under name
C5_IndexFirst(n) ==
    LET f == pathForm[n]
        m == Reached(n)
    IN  /\ f.form = "badindex" => IsInvalidIndex(err, Render(f))
        /\ (f.form = "indexed" /\ ~HasSeq(m, f.name)) => IsTypeMismatch(err, f.name)

\* the entry under name is looked at before the index
C5_NameFirst(n) ==
    LET f == pathForm[n]
        m == Reached(n)
    IN  /\ (f.form \in {"indexed", "badindex"} /\ ~HasSeq(m, f.name))
            => IsTypeMismatch(err, f.name)
        /\ (f.form = "badindex" /\ HasSeq(m, f.name))
            => IsInvalidIndex(err, Render(f))

C5_ClassifiesIndexFirst ==
    pc # "call"
    => /\ \A n \in 1..(Len(pathForm) - 1) :
             Reached(n) # Stuck
             => /\ C5_PlainNotMap(n)
                /\ C5_IndexFirst(n)
                /\ C5_OutOfBounds(n)
                /\ C5_ElementNotMap(n)
       /\ C5_NoFailure

\* C5 as it was stated, the cases taken in the order given: the entry
\* under name decides before the index does
C5_ClassifiesNameFirst ==
    pc # "call"
    => /\ \A n \in 1..(Len(pathForm) - 1) :
             Reached(n) # Stuck
             => /\ C5_PlainNotMap(n)
                /\ C5_NameFirst(n)
                /\ C5_OutOfBounds(n)
                /\ C5_ElementNotMap(n)
       /\ C5_NoFailure

\* b[x].c on a document without the key b: the index decides
C5_Witness ==
    /\ pc = "returned"
    /\ pathForm = <<BadIndex(kb, <<"x">>), Plain(kc)>>
    /\ ~Has(jobMap0, kb)
    /\ IsInvalidIndex(err, <<"b", "[", "x", "]">>)

(***************************************************************************)
(* What the claims say of the patch-file strategy: the Job document that   *)
(* the patch is applied to, the document that the target file holds, and   *)
(* the parts of both.                                                      *)
(***************************************************************************)
ContainersKeys == <<Word.spec, Word.template, Word.spec, Word.containers>>

ContainersOf(doc) ==
    LET cs == Field(doc, ContainersKeys) IN IF IsSeq(cs) THEN cs.items ELSE <<>>

\* the places of the maps of a list that have the name n
Named(items, n) ==
    { i \in 1..Len(items) :
        IsMap(items[i]) /\ Has(items[i], Word.name) /\ items[i].fields[Word.name] = n }

Succeeded == called \in {"EditJob", "EditJobByPath"} /\ pc = "returned" /\ err = Nil

Target == jobTree(withoutOwnerRefs(job0))

Result == yamlUnmarshal(file.bytes)

IsPathPatch(p) ==
    /\ IsMap(p)
    /\ Has(p, Word.path) /\ Has(p, Word.value)
    /\ p.fields[Word.path].kind = "scalar"
    /\ p.fields[Word.path].val # <<>>

\* C6: the patch-file strategy decides the form of the patch from the
\* payload: a payload with a path field and a value field, the path not
\* empty, has its value set at that path of the Job document; every other
\* payload is merged into the Job document as a structural-merge fragment.
C6_DecidesFormFromPayload ==
    Succeeded =>
        IF IsPathPatch(patchFile.doc)
        THEN Result = applyPatch(Target, patchFile.doc.fields[Word.path].val,
                                 patchFile.doc.fields[Word.value]).jobMap
        ELSE Result = StrategicMergePatch(Target, patchFile.doc).val

\* the map re is the map te with the fields of fe over it
FieldByField(re, te, fe) ==
    /\ IsMap(re)
    /\ DOMAIN re.fields = (DOMAIN te.fields) \cup (DOMAIN fe.fields)
    /\ \A k \in DOMAIN re.fields :
          re.fields[k] = IF Has(fe, k) THEN fe.fields[k] ELSE te.fields[k]

\* the elements of a fragment's list that have a name
WithName(frag) == { i \in 1..Len(frag) : IsMap(frag[i]) /\ Has(frag[i], Word.name) }

\* C7: a structural-merge fragment whose containers list holds an element
\* with the name of an existing container is merged into that container
\* field by field: the fields that the fragment gives take its value, the
\* others keep the target's value, and the number of containers is
\* unchanged.
C7_MergesContainerByName ==
    (called = "EditJob" /\ Succeeded /\ IsMap(patchFile.doc)) =>
        LET frag == ContainersOf(patchFile.doc)
            old == ContainersOf(Target)
            new == ContainersOf(Result)
        IN  /\ \A i \in WithName(frag) :
                  \A j \in Named(old, frag[i].fields[Word.name]) :
                      \E k \in 1..Len(new) :
                          /\ Named(new, frag[i].fields[Word.name]) = {k}
                          /\ FieldByField(new[k], old[j], frag[i])
            /\ (/\ frag # <<>>
                /\ \A i \in 1..Len(frag) :
                      i \in WithName(frag) /\ Named(old, frag[i].fields[Word.name]) # {})
               => Len(new) = Len(old)

C7_Witness ==
    /\ called = "EditJob" /\ Succeeded
    /\ job0.containers = <<Container1, Container2>>
    /\ patchFile = Json(ContainersPatch(
                       << MapOf((Word.name :> Scalar(<<"c">>)) @@ (Word.image :> Scalar(<<"v", "2">>))) >>))
    /\ ContainersOf(Result) =
          << containerTree([Container1 EXCEPT !.image = <<"v", "2">>]),
             containerTree(Container2) >>

\* the list fields that the Job schema gives a merge key
HasMergeKey(k) == k \in {Word.containers, Word.ownerReferences}

RECURSIVE MergedInto(_, _, _)
\* the map r holds the map f merged into the map t: the keys of t that f
\* has not are kept, the scalars of f are taken, the maps of both are
\* merged, as are the maps that a list with a merge key has in both, and a
\* list with no merge key is taken from f
MergedInto(r, t, f) ==
    /\ IsMap(r)
    /\ \A k \in (DOMAIN t.fields) \ (DOMAIN f.fields) : Has(r, k) /\ r.fields[k] = t.fields[k]
    /\ \A k \in DOMAIN f.fields :
          LET fv == f.fields[k]
          IN  IF fv.kind \in {"scalar", "bool"}
              THEN Has(r, k) /\ r.fields[k] = fv
              ELSE IF IsMap(fv) /\ Has(t, k) /\ IsMap(t.fields[k])
              THEN Has(r, k) /\ MergedInto(r.fields[k], t.fields[k], fv)
              ELSE IF IsSeq(fv) /\ ~HasMergeKey(k)
              THEN Has(r, k) /\ r.fields[k] = fv
              ELSE IF IsSeq(fv) /\ Has(t, k) /\ IsSeq(t.fields[k])
              THEN /\ Has(r, k) /\ IsSeq(r.fields[k])
                   /\ \A i \in WithName(fv.items) :
                         \A j \in Named(t.fields[k].items, fv.items[i].fields[Word.name]) :
                             \E n \in Named(r.fields[k].items, fv.items[i].fields[Word.name]) :
                                 MergedInto(r.fields[k].items[n], t.fields[k].items[j],
                                            fv.items[i])
              ELSE TRUE

\* C8: in a structural merge the maps that fragment and target both have
\* are merged recursively, so that every key of the target that the
\* fragment has not is preserved; the scalar leaves of the fragment
\* override the target's; a sequence with no merge key, such as the
\* command of a container, is replaced as a whole by the fragment's.
C8_MergesMapsRecursively ==
    (called = "EditJob" /\ Succeeded /\ IsMap(patchFile.doc)) =>
        MergedInto(Result, Target, patchFile.doc)

C8_Witness ==
    /\ called = "EditJob" /\ Succeeded
    /\ job0.containers = <<Container1>>
    /\ job0.labels = (Word.app :> <<"x">>)
    /\ patchFile = Yaml(ContainersPatch(
                       << MapOf((Word.name :> Scalar(<<"c">>)) @@ (Word.image :> Scalar(<<"v", "2">>))
                                @@ (Word.command :> NewCommand)) >>))
    /\ Field(Result, <<Word.metadata, Word.labels, Word.app>>) = Scalar(<<"x">>)
    /\ ContainersOf(Result) =
          << MapOf((Word.name :> Scalar(<<"c">>)) @@ (Word.image :> Scalar(<<"v", "2">>))
                   @@ (Word.command :> NewCommand) @@ (Word.resources :> EmptyMap)) >>

\* the patch file cannot be read
Unreadable == patchFile = Missing

\* the patch file cannot be decoded: it is no YAML or JSON text, it is no
\* mapping, or it is YAML where the path and value of a JSON object are read
Undecodable ==
    \/ patchFile = Invalid
    \/ /\ patchFile \notin {Missing, Invalid}
       /\ \/ ~IsMap(patchFile.doc)
          \/ called = "EditJobByPath" /\ patchFile.format = "yaml"

\* the patch cannot be applied: a fragment has a container with no name to
\* merge it by into the containers of the Job, or a path leads into a
\* container that the Job has not
Inapplicable ==
    /\ patchFile \notin {Missing, Invalid}
    /\ IsMap(patchFile.doc)
    /\ \/ /\ called = "EditJob"
          /\ job0.containers # <<>>
          /\ \E i \in 1..Len(ContainersOf(patchFile.doc)) :
                i \notin WithName(ContainersOf(patchFile.doc))
       \/ /\ called = "EditJobByPath"
          /\ patchFile.format = "json"
          /\ \E n \in 0..9 : \E f \in {Word.command, Word.image} :
                /\ Has(patchFile.doc, Word.path)
                /\ patchFile.doc.fields[Word.path] = Scalar(PathOf(ContainerPath(n, f)))
                /\ n >= Len(job0.containers)

\* C9: when the patch payload cannot be read or decoded, or the patch
\* cannot be applied, EditJob returns an error and the target file is
\* neither created nor written.
C9_FailureLeavesTargetFile ==
    (called \in {"EditJob", "EditJobByPath"} /\ pc # "call"
     /\ (Unreadable \/ Undecodable \/ Inapplicable)) =>
        /\ pc = "returned"
        /\ err # Nil
        /\ file = file0

C9_Witness ==
    /\ called = "EditJob" /\ pc = "returned"
    /\ patchFile = Json(ContainersPatch(<< MapOf(Word.image :> Scalar(<<"v", "2">>)) >>))
    /\ Inapplicable
    /\ createOk
    /\ file0 = Absent
    /\ file = Absent
    /\ err = ErrApplyPatch(ErrNoMergeKey)

(***************************************************************************)
(* What the claims say of the document codec.                              *)
(***************************************************************************)
\* the lines of the encoded Job without its owner references
BodyLines == SplitLines(yamlMarshal(jobTree(withoutOwnerRefs(job0))))

\* the lines of the encoded owner-reference list
OwnerLines ==
    SplitLines(yamlMarshal(MapOf(Word.ownerReferences :>
                                   ownerRefTrees(job0.ownerReferences))))

\* the line of the metadata section that holds the namespace field
NamespaceLine == <<" ", " ">> \o Word.namespace \o Word.colonSpace \o job0.namespace

\* C10: for every Job with a non-empty namespace, whatever its labels and
\* annotations, jobToYaml takes the owner-reference list out of the encoded
\* body and puts it in as a block of lines, each starting with "  # ",
\* immediately after the line of the metadata section that holds the
\* namespace field; no other byte of the encoding is changed.
C10_CommentBlockAfterNamespaceLine ==
    (called = "jobToYaml" /\ pc # "call" /\ job0.namespace # <<>>) =>
        /\ pc = "returned"
        /\ data # <<>> /\ data[Len(data)] = "\n"
        /\ \E k \in 1..Len(BodyLines) :
              /\ BodyLines[k] = NamespaceLine
              /\ SplitLines(data) =
                    SubSeq(BodyLines, 1, k)
                    \o [n \in 1..Len(OwnerLines) |-> Word.comment \o OwnerLines[n]]
                    \o SubSeq(BodyLines, k + 1, Len(BodyLines))

\* the same of the Jobs whose labels and annotations do not hold the text
\* "namespace: "
C10_PlainMetadata ==
    (DOMAIN job0.annotations = {} /\ Word.namespace \notin DOMAIN job0.labels) =>
        C10_CommentBlockAfterNamespaceLine

(***************************************************************************)
(* What the claims say of the file that an editing strategy writes.        *)
(***************************************************************************)
\* the lines hold the owner references of the Job as a comment block
\* directly under the namespace line of the metadata
HasOwnerBlock(lines) ==
    \E k \in 1..Len(lines) :
        /\ lines[k] = NamespaceLine
        /\ k + Len(OwnerLines) <= Len(lines)
        /\ SubSeq(lines, k + 1, k + Len(OwnerLines)) =
              [n \in 1..Len(OwnerLines) |-> Word.comment \o OwnerLines[n]]

\* C11: the file that an editing strategy writes for submission holds the
\* owner references of the Job as a comment block directly under the
\* namespace line, for the interactive strategy and for the patch-file
\* strategy alike.
C11_WrittenFileHasOwnerBlock ==
    (/\ called \in {"EditJob", "EditJobByPath", "EditJobInteractive"}
     /\ pc = "returned"
     /\ written # None
     /\ job0.ownerReferences # <<>>) =>
        HasOwnerBlock(SplitLines(written))

\* the same of the interactive strategy alone, for the Jobs whose labels do
\* not hold the text "namespace: "
C11_InteractivePlainMetadata ==
    (called = "EditJobInteractive" /\ Word.namespace \notin DOMAIN job0.labels) =>
        C11_WrittenFileHasOwnerBlock

\* the patch-file strategy writes no file with the block
C11_PatchFileNeverHasOwnerBlock ==
    (/\ called \in {"EditJob", "EditJobByPath"}
     /\ pc = "returned"
     /\ written # None
     /\ job0.ownerReferences # <<>>) =>
        ~HasOwnerBlock(SplitLines(written))

\* C12 as stated: encoding a Job with jobToYaml and decoding the result into
\* a typed Job gives a Job equal to the one that was encoded, for every Job
\* with zero or more owner references.
C12_RoundTripKeepsJob ==
    (called = "jobToYaml" /\ pc # "call") =>
        /\ pc = "returned"
        /\ ret # None => ret = job0

\* C12: encoding a Job that has a namespace with jobToYaml and decoding the
\* result into a typed Job gives the Job without its owner references,
\* which is how jobToYaml leaves its argument: a Job equal to the one that
\* was encoded exactly when that had no owner references.
C12_RoundTripDropsOwners ==
    (called = "jobToYaml" /\ pc # "call" /\ job0.namespace # <<>>) =>
        /\ pc = "returned"
        /\ job = [job0 EXCEPT !.ownerReferences = <<>>]
        /\ ret # None =>
              /\ ret = [job0 EXCEPT !.ownerReferences = <<>>]
              /\ (ret = job0) <=> (job0.ownerReferences = <<>>)

C12_Witness ==
    /\ called = "jobToYaml" /\ pc = "returned"
    /\ job0.ownerReferences = <<Ref1, Ref2>>
    /\ job0.labels = (Word.app :> <<"x">>)
    /\ job0.containers = <<Container1, Container2>>
    /\ ret = [job0 EXCEPT !.ownerReferences = <<>>]
    /\ ret # job0

(***************************************************************************)
(* What the claims say of run and of confirmByUser.                        *)
(***************************************************************************)
InTrace(e) == \E n \in 1..Len(trace) : trace[n] = e

PatchFileGiven == patchFile # Unset

\* C13: the editing strategy is chosen once in run, from the flag
\* --patch-file, and never changes afterwards; when the patch-file strategy
\* is chosen no editor process is started and confirmByUser is never
\* called, and a patch that succeeds is followed directly by applyJob.
C13_PatchFileRunsUnattended ==
    /\ [](editor # NoEditor =>
            /\ (editor = "patchJobEditor") <=> PatchFileGiven
            /\ (editor = "interactiveJobEditor") <=> ~PatchFileGiven)
    /\ [][editor # NoEditor => editor' = editor /\ skipConfirm' = skipConfirm]_vars
    /\ [](editor = "patchJobEditor" =>
            /\ ~InTrace("editor") /\ ~InTrace("prompt")
            /\ gate = "idle" /\ reader = "idle" /\ confirmed = None /\ ttys = 0
            /\ pc # "confirm")
    /\ [][(editor = "patchJobEditor" /\ pc = "edit" /\ pc' \notin {"edit", "panicked"}
           /\ err' = Nil) => pc' = "apply"]_vars
    /\ [][(editor = "patchJobEditor" /\ pc = "apply") =>
             (pc' = "exited" /\ trace'[Len(trace) + 1] = "apply")]_vars

C13_Witness ==
    /\ called = "run" /\ pc = "exited"
    /\ editor = "patchJobEditor" /\ skipConfirm
    /\ err = Nil
    /\ file # file0
    /\ trace = <<"apply">>
    /\ code = exitStatusOK

\* C14: if EditJob of the chosen strategy returns an error, run reports it
\* and returns a status that is not zero, and neither confirmByUser nor
\* applyJob is executed afterwards.
C14_EditErrorAborts ==
    (called = "run" /\ err # Nil) =>
        /\ pc = "exited"
        /\ code # NoCode /\ code # 0
        /\ trace # <<>> /\ trace[Len(trace)] = "report"
        /\ ~InTrace("prompt") /\ ~InTrace("canceled") /\ ~InTrace("apply")
        /\ gate = "idle" /\ reader = "idle" /\ confirmed = None

C14_Witness ==
    /\ called = "run" /\ pc = "exited"
    /\ editor = "interactiveJobEditor"
    /\ err = ErrEditor
    /\ file # file0
    /\ trace = <<"editor", "report">>
    /\ code = exitStatusErr

Decided == called = "run" /\ confirmed # None

\* C15: an interrupt taken by the select of confirmByUser is treated like
\* the answer "n": confirmByUser returns false and no error, and run prints
\* "canceled", submits nothing and exits with status 0.
C15_InterruptIsNo ==
    (Decided /\ confirmed.by = "sigs") =>
        /\ ~confirmed.ok /\ confirmed.err = Nil
        /\ pc \in {"confirm", "exited"}
        /\ ~InTrace("apply") /\ ~InTrace("report")
        /\ pc = "exited" => /\ code = 0
                            /\ trace[Len(trace)] = "canceled"

C15_Witness ==
    /\ Decided /\ confirmed.by = "sigs"
    /\ pc = "exited" /\ code = 0
    /\ trace = <<"editor", "prompt", "canceled">>
    /\ written # None

\* the lines of Lines that are "y", and those that are "n" or empty, once
\* the surrounding white space is dropped and the letters are lower-cased
YesLines == { <<"y">>, <<" ", "Y", " ">> }

NoLines == { <<"n">>, <<"N", "\t">>, <<>>, <<" ">> }

\* a step of the select that receives a line from answerCh
ReceivesAnswer ==
    /\ called = "run" /\ gate = "select"
    /\ reader = "sendAnswer" /\ reader' = "read"

\* C16: confirmByUser returns true only after receiving a line that is "y"
\* once trimmed and lower-cased; a line that is "n" or empty makes it return
\* false; on any other line it prints the prompt again and keeps waiting.
C16_AnswersDecide ==
    /\ [](Decided /\ confirmed.ok => confirmed.by = "answer" /\ confirmed.line \in YesLines)
    /\ [](Decided /\ confirmed.by = "answer" /\ ~confirmed.ok => confirmed.line \in NoLines)
    /\ [][ReceivesAnswer =>
            /\ held.line \in YesLines =>
                  /\ gate' = "returned"
                  /\ confirmed' # None /\ confirmed'.ok /\ confirmed'.err = Nil
            /\ held.line \in NoLines =>
                  /\ gate' = "returned"
                  /\ confirmed' # None /\ ~confirmed'.ok /\ confirmed'.err = Nil
            /\ held.line \notin YesLines \cup NoLines =>
                  /\ gate' = "select" /\ confirmed' = confirmed
                  /\ ttys' = ttys
                  /\ trace' = Append(trace, "reprompt")]_vars

C16_Witness ==
    /\ Decided /\ confirmed.ok
    /\ confirmed.line = <<" ", "Y", " ">>
    /\ InTrace("reprompt")
    /\ pc = "exited" /\ InTrace("apply")

\* a step of the goroutine in which ttyutil.ReadLine returns
Reads == called = "run" /\ reads' = reads + 1

\* C20: the goroutine treats io.EOF from ReadLine as transient: it reads
\* again and sends nothing; any other read error is delivered once, after
\* which the goroutine is over, and confirmByUser returns false with that
\* error.
C20_EofIsTransient ==
    /\ [][Reads /\ held'.err = EOF =>
            /\ reader' = "read"
            /\ UNCHANGED <<gate, confirmed, trace, ttys, pc>>]_vars
    /\ [][Reads /\ held'.err \notin {Nil, EOF} => reader' = "sendErr"]_vars
    /\ [][called = "run" /\ reader = "done" => reader' = "done"]_vars
    /\ [](called = "run" /\ reader = "sendErr" => held.err \notin {Nil, EOF})
    /\ [](Decided /\ confirmed.by = "errCh" =>
            /\ ~confirmed.ok
            /\ confirmed.err \notin {Nil, EOF}
            /\ confirmed.err = held.err
            /\ reader = "done")

C20_Witness ==
    /\ Decided /\ confirmed.by = "errCh"
    /\ confirmed.err = ErrRead
    /\ reads = 3
    /\ reader = "done"
    /\ pc = "exited"
    /\ trace = <<"editor", "prompt", "report", "canceled">>

\* the positions of "/" in an argument
Slashes(s) == { n \in 1..Len(s) : s[n] = "/" }

Returned(f) == called = f /\ pc = "returned"

\* C17: getNamespaceAndName accepts exactly three forms: two arguments give
\* (first, second, true); one argument without "/" gives ("", argument,
\* true); one argument with exactly one "/" gives (part before, part after,
\* true); no argument, more than two arguments, or one argument with more
\* than one "/" give ("", "", false).
C17_ThreeArgumentForms ==
    Returned("getNamespaceAndName") =>
        /\ Len(args) = 2 =>
              ret = [namespace |-> args[1], name |-> args[2], ok |-> TRUE]
        /\ Len(args) = 1 /\ Slashes(args[1]) = {} =>
              ret = [namespace |-> <<>>, name |-> args[1], ok |-> TRUE]
        /\ Len(args) = 1 /\ Cardinality(Slashes(args[1])) = 1 =>
              LET k == CHOOSE k \in Slashes(args[1]) : TRUE
              IN  ret = [namespace |-> SubSeq(args[1], 1, k - 1),
                         name |-> SubSeq(args[1], k + 1, Len(args[1])),
                         ok |-> TRUE]
        /\ (Len(args) = 0 \/ Len(args) > 2
               \/ (Len(args) = 1 /\ Cardinality(Slashes(args[1])) > 1)) =>
              ret = [namespace |-> <<>>, name |-> <<>>, ok |-> FALSE]

C17_Witness ==
    /\ Returned("getNamespaceAndName")
    /\ args = << <<"n", "s", "/", "a">> >>
    /\ ret = [namespace |-> <<"n", "s">>, name |-> <<"a">>, ok |-> TRUE]

\* the number that a major or minor stands for, a trailing "+" dropped
NumberOf(n) == DigitsVal(IF n[Len(n)] = "+" THEN SubSeq(n, 1, Len(n) - 1) ELSE n)

\* the version is 1.21 or higher
AtLeast121(v) ==
    \/ NumberOf(v.major) > 1
    \/ NumberOf(v.major) = 1 /\ NumberOf(v.minor) >= 21

\* C18: isCronJobGA returns true exactly when the server version is 1.21
\* or higher, for every major and minor number (one-digit and three-digit
\* minors and minors with a trailing "+" included), and the batch/v1
\* CronJob API is used exactly when it returns true.
C18_GAFrom121 ==
    /\ Returned("isCronJobGA") => (ret.ga <=> AtLeast121(args))
    /\ Returned("newJobTemplate") /\ ret.api # "none" =>
          /\ (ret.api = "batch/v1") <=> ret.ga
          /\ ret.ga <=> AtLeast121(args)

\* for the minors of two digits the comparison of strings is the
\* comparison of numbers
C18_TwoDigitMinors ==
    /\ Returned("isCronJobGA") /\ Len(args.minor) - (IF args.minor[Len(args.minor)] = "+" THEN 1 ELSE 0) = 2
          => (ret.ga <=> AtLeast121(args))
    /\ Returned("newJobTemplate") /\ ret.api # "none" => ((ret.api = "batch/v1") <=> ret.ga)

\* the namespaces of the contexts whose name is current-context
NamespacesOfCurrent ==
    { args.contexts[n].namespace :
        n \in { m \in 1..Len(args.contexts) : args.contexts[m].name = args.currentContext } }

\* C19: CurrentNamespace returns the namespace of the context named by
\* current-context when that context has a non-empty namespace, and
\* "default" when that context has no namespace or no context has that name.
C19_NamespaceOrDefault ==
    Returned("CurrentNamespace") =>
        /\ NamespacesOfCurrent = {} => ret = Word.default
        /\ NamespacesOfCurrent = { <<>> } => ret = Word.default
        /\ \A ns \in Namespaces :
              ns # <<>> /\ NamespacesOfCurrent = { ns } => ret = ns

\* what the code returns instead: the namespace of the context, and "" when
\* that context has no namespace or no context has that name
C19_NamespaceOrEmpty ==
    Returned("CurrentNamespace") =>
        /\ NamespacesOfCurrent = {} => ret = <<>>
        /\ \A ns \in Namespaces : NamespacesOfCurrent = { ns } => ret = ns

\* a step in which confirmByUser returns from its select
SelectReturns == called = "run" /\ gate = "select" /\ gate' = "returned"

\* C21: confirmByUser returns one decision, that of whichever of the
\* interrupt and the message of the goroutine the select receives; when it
\* is the interrupt, false is returned whatever the goroutine is doing, and
\* nothing that the goroutine reads afterwards changes the decision.
C21_OneDecisionFirstReceived ==
    /\ [][Decided => confirmed' = confirmed]_vars
    /\ [][called = "run" /\ gate = "returned" => gate' = "returned"]_vars
    /\ [][SelectReturns =>
            /\ confirmed = None /\ confirmed' # None
            /\ \/ /\ sigs = 1 /\ sigs' = 0
                  /\ confirmed'.by = "sigs" /\ ~confirmed'.ok
                  /\ reader' = reader /\ held' = held
               \/ /\ reader = "sendAnswer" /\ reader' = "read"
                  /\ confirmed'.by = "answer" /\ confirmed'.line = held.line
               \/ /\ reader = "sendErr" /\ reader' = "done"
                  /\ confirmed'.by = "errCh" /\ confirmed'.err = held.err]_vars
    /\ [](called = "run" /\ gate = "select" => confirmed = None)

\* the interrupt was received while the goroutine was in ReadLine, and the
\* goroutine has read the line "y" since
C21_Witness ==
    /\ Decided /\ confirmed.by = "sigs" /\ ~confirmed.ok
    /\ gate = "returned" /\ pc = "confirm"
    /\ reads = 1
    /\ reader = "sendAnswer" /\ held.line = <<"y">>
    /\ ~InTrace("reprompt")

\* a step in which confirmByUser goes from its first line to the select
SelectEntered == called = "run" /\ gate = "idle" /\ gate' = "select"

\* C22: a call of confirmByUser opens the terminal once and closes it once
\* on every return from the select (answer, interrupt, read error), and
\* during a run at most one handle of the terminal is open at any time:
\* the handle of the interactive editor is closed before the prompt opens
\* its own.
C22_OneTerminalHandle ==
    /\ [](called = "run" => ttys \in {0, 1})
    /\ [](called = "run" /\ gate = "select" => ttys = 1)
    /\ [](called = "run" /\ gate \in {"idle", "returned"} => ttys = 0)
    /\ [][SelectEntered => ttys' = ttys + 1]_vars
    /\ [][SelectReturns => ttys' = ttys - 1]_vars
    /\ [][called = "run" /\ ttys' # ttys => SelectEntered \/ SelectReturns]_vars

\* the editor has used the terminal, the prompt has opened it again, and
\* the call has returned on a read error with the handle closed
C22_Witness ==
    /\ Decided /\ confirmed.by = "errCh"
    /\ InTrace("editor") /\ InTrace("prompt")
    /\ gate = "returned" /\ ttys = 0

\* the last segment is name[idx] with idx inside the sequence under name of
\* the map that the segments before it lead to
FinalIndexInRange ==
    LET m == Reached(Len(pathForm))
    IN  /\ called = "applyPatch" /\ pc # "call"
        /\ Last.form = "indexed"
        /\ m # Stuck
        /\ HasSeq(m, Last.name)
        /\ Last.idx \in 0..(Len(m.fields[Last.name].items) - 1)

\* C23: when the last segment of the path is name[idx] and idx is within
\* the sequence under name, applyPatch sets element idx of that sequence to
\* the value: the sequence keeps its length and the enclosing map gets no
\* new key.
C23_SetsElementAtFinalIndex ==
    FinalIndexInRange =>
        LET m0 == Reached(Len(pathForm))
            m1 == Walk(jobMap, Prefix(Len(pathForm)))
        IN  /\ pc = "returned" /\ err = Nil
            /\ m1 # Stuck
            /\ DOMAIN m1.fields = DOMAIN m0.fields
            /\ IsSeq(m1.fields[Last.name])
            /\ Len(m1.fields[Last.name].items) = Len(m0.fields[Last.name].items)
            /\ m1.fields[Last.name].items[Last.idx + 1] = value

\* what the code does instead: the sequence is left as it was and the value
\* is stored under the new key "name[idx]" of the enclosing map
C23_AddsLiteralKey ==
    FinalIndexInRange =>
        LET m0 == Reached(Len(pathForm))
            m1 == Walk(jobMap, Prefix(Len(pathForm)))
        IN  /\ pc = "returned" /\ err = Nil
            /\ m1 # Stuck
            /\ DOMAIN m1.fields = DOMAIN m0.fields \cup {Render(Last)}
            /\ Render(Last) \notin DOMAIN m0.fields
            /\ m1.fields[Last.name] = m0.fields[Last.name]
            /\ m1.fields[Render(Last)] = value

Failed == called = "applyPatch" /\ pc = "returned" /\ err # Nil

\* C24: whenever applyPatch returns an error, of any kind, the document is
\* equal to what it was before the call, also for paths whose earlier
\* segments name keys that did not exist.
C24_ErrorLeavesDocument == Failed => jobMap = jobMap0

\* some segment before the last is a plain key that is missing from the map
\* reached, so that applyPatch makes a map for it
CreatesMap ==
    \E n \in 1..(Len(pathForm) - 1) :
        /\ pathForm[n].form = "plain"
        /\ Reached(n) # Stuck
        /\ ~Has(Reached(n), pathForm[n].name)

\* what holds instead: the document is as it was when no map was made on
\* the way to the failing segment
C24_ErrorWithoutCreation == Failed /\ ~CreatesMap => jobMap = jobMap0

\* and it is never as it was when one was made
C24_ErrorAfterCreation == Failed /\ CreatesMap => jobMap # jobMap0

\* C25: for every path string, the empty path, empty segments, segments
\* with "]" before "[" and segments with empty brackets included, and for
\* every document, applyPatch returns, with success or with an error; it
\* never aborts with a run-time fault.
C25_NeverFaults == called = "applyPatch" => pc # "panicked"

\* a segment before the last whose first "]" comes before its first "["
ReversedBrackets ==
    \E n \in 1..(Len(pathForm) - 1) :
        LET seg == Render(pathForm[n])
            open == { k \in 1..Len(seg) : seg[k] = "[" }
            close == { k \in 1..Len(seg) : seg[k] = "]" }
        IN  /\ open # {} /\ close # {}
            /\ \E c \in close : \A o \in open : c < o

\* what holds instead: applyPatch aborts only on a path with such a segment
C25_FaultsOnlyOnReversedBrackets ==
    (called = "applyPatch" /\ pc = "panicked") => ReversedBrackets

\* the empty path, and a segment with empty brackets, return
C25_EmptyPathReturns ==
    (called = "applyPatch" /\ pc # "call" /\ path = <<>>) =>
        /\ pc = "returned" /\ err = Nil
        /\ Has(jobMap, <<>>) /\ jobMap.fields[<<>>] = value

\* confirmByUser has returned from the select, its terminal closed
GateClosed == called = "run" /\ gate = "returned" /\ ttys = 0 /\ InTrace("prompt")

\* C26: after confirmByUser has returned and closed the terminal, the
\* goroutine it started reads no more from that terminal and is not left
\* blocked on a send to a channel from which nobody receives.
C26_ReaderStopsWithGate ==
    /\ [][GateClosed => reads' = reads]_vars
    /\ [](GateClosed => reader \notin {"sendAnswer", "sendErr"})

\* what holds instead: the goroutine is over when confirmByUser returns only
\* when the return is that of a read error; after an interrupt or an answer
\* it is in ReadLine or at a send that nothing will receive
C26_ReaderOutlivesGate ==
    /\ [](GateClosed /\ confirmed.by = "errCh" => reader = "done")
    /\ [](GateClosed /\ confirmed.by \in {"sigs", "answer"} =>
             reader \in {"read", "sendAnswer", "sendErr"})
    /\ [][GateClosed /\ reader \in {"sendAnswer", "sendErr"} => reader' = reader]_vars

Exited == called = "run" /\ pc = "exited"

\* applyJob was called and returned no error; it was called and returned one
ApplySucceeded == trace # <<>> /\ trace[Len(trace)] = "apply"

ApplyFailed ==
    Len(trace) >= 2 /\ trace[Len(trace)] = "report" /\ trace[Len(trace) - 1] = "apply"

GateFailed == Decided /\ confirmed.err # Nil

\* applyJob is called only after an edit without error that was confirmed
\* or made with a patch file
ApplyOnlyAfterEdit ==
    (called = "run" /\ InTrace("apply")) =>
        /\ err = Nil /\ written # None
        /\ skipConfirm \/ (Decided /\ confirmed.ok)

\* C27: run returns 0 only when applyJob succeeded or confirmByUser
\* returned false without error; whenever a step returned an error (the
\* editing strategy, confirmByUser, applyJob) run returns a status that is
\* not 0; and applyJob is called only after an edit without error that was
\* confirmed or made with a patch file.
C27_ZeroOnlyOnSuccessOrRefusal ==
    /\ (Exited /\ code = 0) =>
           ApplySucceeded \/ (Decided /\ ~confirmed.ok /\ confirmed.err = Nil)
    /\ (Exited /\ (err # Nil \/ GateFailed \/ ApplyFailed)) => code # 0
    /\ ApplyOnlyAfterEdit

\* what holds instead: an error of confirmByUser is printed and run returns
\* 0 all the same; the errors of EditJob and applyJob give a status not 0
C27_GateErrorExitsZero ==
    /\ (Exited /\ GateFailed) => code = 0 /\ trace[Len(trace)] = "canceled"
    /\ (Exited /\ code = 0) => ApplySucceeded \/ (Decided /\ ~confirmed.ok)
    /\ (Exited /\ (err # Nil \/ ApplyFailed)) => code # 0
    /\ ApplyOnlyAfterEdit

\* a line that decides has been read and is at the send, or a signal is in
\* sigs, while confirmByUser is at its select
DecidingInput ==
    /\ called = "run" /\ gate = "select"
    /\ \/ sigs = 1
       \/ reader = "sendAnswer" /\ held.line \in YesLines \cup NoLines

\* C28: when the select of confirmByUser and the goroutine are scheduled
\* fairly, a line that is "y", "n" or empty once trimmed and lower-cased,
\* or an interrupt, makes confirmByUser return in the end, whatever lines
\* and ends of input came before; and it returns from the select on
\* nothing else but a read error: there is no timeout.
C28_DecidingInputReturns ==
    /\ DecidingInput ~> (called = "run" /\ gate = "returned")
    /\ [][SelectReturns =>
            \/ sigs = 1
            \/ reader = "sendAnswer" /\ held.line \in YesLines \cup NoLines
            \/ reader = "sendErr"]_vars

\* the answer n after an end of input and a line that is no answer
C28_Witness ==
    /\ Decided /\ confirmed.by = "answer"
    /\ confirmed.line \in NoLines
    /\ reads = 3
    /\ InTrace("reprompt")
    /\ gate = "returned"

\* confirmByUser is still at its select with every line read and no signal
C28_StillWaiting ==
    /\ called = "run" /\ gate = "select"
    /\ reads = MaxReads /\ reader = "read" /\ sigs = 0

====
